---------------------------- MODULE Spec2Model ----------------------------
(***************************************************************************)
(* A model of the session / cache / event coordination layer of tapoctl.   *)
(*                                                                         *)
(*   Device session state machine      src/src/device.rs                   *)
(*   Session-expired retry             src/src/tapo/device/mod.rs          *)
(*   State cache                       src/src/tapo/state.rs               *)
(*   Event fan-out                     src/src/tapo/server.rs (events)     *)
(*   Property delta resolution         src/src/tapo/server.rs (set)        *)
(*                                                                         *)
(* Every part has its own specification (SpecSession, SpecRetry, ...);     *)
(* the variables of the other parts stay at their initial values.          *)
(* Times are in milliseconds, as in the source.                            *)
(***************************************************************************)
EXTENDS Integers, Sequences, FiniteSets, TLC

VARIABLES
    now,        \* SystemTime::now(), in milliseconds since start_server
    device,     \* the Device struct: session_status, next_session_action, handler, refresh_retires
    acq,        \* history of the device's acquisition attempts (failed_row, last_fail)
    last,       \* what the most recent call on the device did
    ext,        \* a TapoDeviceExt operation in progress (tapo/device/mod.rs)
    dtype,      \* the DeviceHandler variant of the device: ColorLight, Light or Generic
    info,       \* State.info[device.name]: None or Some([response, created])
    clast,      \* what the most recent call on State did, and the call before it
    log,        \* every event sent on the broadcast channel so far, oldest first
    sub,        \* per Events call: its forwarding task, its outbound queue and its consumer
    lamp,       \* the cached InfoResponse fields that set() resolves changes against
    slast,      \* what the most recent set() call did
    delta,      \* what the most recent resolution of a brightness, saturation or temperature change did
    mutex,      \* the tokio Mutex around the Device: 0 when free, or the client whose request holds the guard
    req,        \* per client: the RPC it has in progress or has finished last, and what that request did
    registry,   \* TapoService.devices: the Device of every name, empty before start_server has run
    locks,      \* the Mutex of every Device and the Mutex of State: 0 when free, or the client that holds the guard
    task,       \* per client: the set() call it has in progress and where that call is
    stored,     \* State.info of every device: None, or Some of the time the entry was created
    trace       \* the events published and the calls returned so far, in their order

sessionVars == <<now, device, acq, last>>

retryVars == <<ext>>

cacheVars == <<dtype, info, clast>>

busVars == <<log, sub>>

setVars == <<lamp, slast>>

deltaVars == <<delta>>

svcVars == <<mutex, req>>

fleetVars == <<registry, locks, stored, task, trace>>

vars == <<now, device, acq, last, ext, dtype, info, clast, log, sub, lamp, slast, delta, mutex, req, registry, locks, stored, task, trace>>

\* what the actions of one part leave alone
notSession == <<retryVars, cacheVars, busVars, setVars, deltaVars, svcVars, fleetVars>>

notRetry == <<sessionVars, cacheVars, busVars, setVars, deltaVars, svcVars, fleetVars>>

notCache == <<acq, last, retryVars, busVars, setVars, deltaVars, svcVars, fleetVars>>

notBus == <<sessionVars, retryVars, cacheVars, setVars, deltaVars, svcVars, fleetVars>>

notSet == <<sessionVars, retryVars, cacheVars, busVars, deltaVars, svcVars, fleetVars>>

notDelta == <<sessionVars, retryVars, cacheVars, busVars, setVars, svcVars, fleetVars>>

\* the service acts on the device, on the cache entries and on its own variables
notSvc == <<acq, last, retryVars, clast, busVars, setVars, deltaVars, fleetVars>>

\* the devices of the fleet share the clock
notFleet == <<device, acq, last, retryVars, cacheVars, busVars, setVars, deltaVars, svcVars>>

Min(a, b) == IF a < b THEN a ELSE b

Max(a, b) == IF a > b THEN a ELSE b

(***************************************************************************)
(* device.rs: constants and SessionStatus                                  *)
(***************************************************************************)
SESSION_VALIDITY_MILLIS == 3600000

SESSION_REFRESH_RETRIES == 10

REPEATED_FAILURE_RETRY_MILLIS == 600000

SessionStatus == {"Authenticated", "Failure", "RepeatedFailure"}

\* Outcome of a call into the tapo client library (login or session refresh).
Outcomes == {"ok", "err"}

(***************************************************************************)
(* Bounds of the session model                                             *)
(***************************************************************************)
\* number of clock advances in one behaviour
MaxTicks == 3

\* number of session calls (try_refresh_session / refresh_session) in one behaviour
MaxCalls == 13

\* The clock advances by one of these amounts.
TimeSteps ==
    { 1, REPEATED_FAILURE_RETRY_MILLIS - 1, REPEATED_FAILURE_RETRY_MILLIS,
      SESSION_VALIDITY_MILLIS }

(***************************************************************************)
(* Device::new: the handler is acquired at once; a failure is not fatal.   *)
(***************************************************************************)
DeviceNew_FailureNotCounted(t, outcome) ==
    [ session_status      |-> IF outcome = "ok" THEN "Authenticated" ELSE "Failure",
      next_session_action |-> IF outcome = "ok" THEN t + SESSION_VALIDITY_MILLIS ELSE t,
      handler             |-> (outcome = "ok"),
      refresh_retires     |-> 0 ]

DeviceNew(t, outcome) ==
    [ session_status      |-> IF outcome = "ok" THEN "Authenticated" ELSE "Failure",
      next_session_action |-> IF outcome = "ok" THEN t + SESSION_VALIDITY_MILLIS ELSE t,
      handler             |-> (outcome = "ok"),
      refresh_retires     |-> IF outcome = "ok" THEN 0 ELSE 1 ]

(***************************************************************************)
(* Device::refresh_session, the state it leaves.  With a handler, the      *)
(* handler's refresh_session is called; without one, acquire_handler.      *)
(***************************************************************************)
RefreshWithHandler_Pushed(d, t, outcome) ==
    IF outcome = "err"
    THEN [d EXCEPT !.session_status = "Failure", !.refresh_retires = 1,
                   !.next_session_action = t + SESSION_VALIDITY_MILLIS]
    ELSE [d EXCEPT !.next_session_action = t + SESSION_VALIDITY_MILLIS]

RefreshWithHandler_Dropped(d, t, outcome) ==
    IF outcome = "err"
    THEN [d EXCEPT !.session_status = "Failure", !.refresh_retires = 1, !.handler = FALSE]
    ELSE [d EXCEPT !.next_session_action = t + SESSION_VALIDITY_MILLIS]

RefreshWithHandler(d, t, outcome) ==
    IF outcome = "err"
    THEN [d EXCEPT !.session_status = "Failure", !.refresh_retires = 1]
    ELSE [d EXCEPT !.next_session_action = t + SESSION_VALIDITY_MILLIS]

AcquireCount_Unbounded(d) == d.refresh_retires + 1

AcquireCount(d) == Min(d.refresh_retires + 1, SESSION_REFRESH_RETRIES)

RefreshWithoutHandler_StatusKept(d, t, outcome) ==
    IF outcome = "ok"
    THEN [d EXCEPT !.next_session_action = t + SESSION_VALIDITY_MILLIS,
                   !.refresh_retires = 0,
                   !.handler = TRUE]
    ELSE [d EXCEPT !.refresh_retires = Min(@ + 1, SESSION_REFRESH_RETRIES)]

RefreshWithoutHandler(d, t, outcome) ==
    IF outcome = "ok"
    THEN [d EXCEPT !.session_status = "Authenticated",
                   !.next_session_action = t + SESSION_VALIDITY_MILLIS,
                   !.refresh_retires = 0,
                   !.handler = TRUE]
    ELSE IF AcquireCount(d) = SESSION_REFRESH_RETRIES
         THEN [d EXCEPT !.refresh_retires = AcquireCount(d),
                        !.session_status = "RepeatedFailure",
                        !.next_session_action = t + REPEATED_FAILURE_RETRY_MILLIS]
         ELSE [d EXCEPT !.refresh_retires = AcquireCount(d)]

refresh_session_AlwaysEvent(d, t, outcome) ==
    LET d2 == IF d.handler THEN RefreshWithHandler(d, t, outcome)
                           ELSE RefreshWithoutHandler(d, t, outcome)
    IN [ device    |-> d2,
         result    |-> IF outcome = "ok" THEN "Ok" ELSE "Err",
         acquires  |-> IF d.handler THEN 0 ELSE 1,
         refreshes |-> IF d.handler THEN 1 ELSE 0,
         events    |-> <<[type |-> "DeviceAuthChange", status |-> d2.session_status]>> ]

\* The whole call: new device state, result, calls made to the device, events sent.
refresh_session(d, t, outcome) ==
    LET d2 == IF d.handler THEN RefreshWithHandler(d, t, outcome)
                           ELSE RefreshWithoutHandler(d, t, outcome)
    IN [ device    |-> d2,
         result    |-> IF outcome = "ok" THEN "Ok" ELSE "Err",
         acquires  |-> IF d.handler THEN 0 ELSE 1,
         refreshes |-> IF d.handler THEN 1 ELSE 0,
         events    |-> IF d2.session_status # d.session_status
                       THEN <<[type |-> "DeviceAuthChange", status |-> d2.session_status]>>
                       ELSE <<>> ]

SessionActionDue_Always(d, t) == TRUE

\* try_refresh_session refreshes only when the next session action is due.
SessionActionDue(d, t) == t >= d.next_session_action

try_refresh_session_Eager(d, t, outcome) == refresh_session(d, t, outcome)

try_refresh_session(d, t, outcome) ==
    IF SessionActionDue(d, t)
    THEN refresh_session(d, t, outcome)
    ELSE [ device |-> d, result |-> "Ok", acquires |-> 0, refreshes |-> 0, events |-> <<>> ]

(***************************************************************************)
(* The session specification: one device, its clock and its callers.       *)
(***************************************************************************)
\* acq.failed_row: acquisition attempts failed in a row, the one of Device::new included;
\* acq.last_fail: the time of the latest failed acquisition attempt;
\* acq.suppressed: an access since then returned without an attempt;
\* acq.calls, acq.ticks: session calls and clock advances so far
AcqNew(outcome) ==
    [ failed_row |-> IF outcome = "ok" THEN 0 ELSE 1, last_fail |-> 0,
      suppressed |-> FALSE, calls |-> 0, ticks |-> 0 ]

NoCall == [ op |-> "none", at |-> 0, before |-> DeviceNew(0, "ok"), result |-> "Ok",
            acquires |-> 0, refreshes |-> 0, events |-> <<>>, acq |-> AcqNew("ok") ]

AcqAfter(a, d, r, t) ==
    [ failed_row |-> IF r.acquires = 0 THEN a.failed_row
                     ELSE IF r.result = "Ok" THEN 0 ELSE a.failed_row + 1,
      last_fail  |-> IF r.acquires = 1 /\ r.result = "Err" THEN t ELSE a.last_fail,
      suppressed |-> IF r.acquires = 1 THEN FALSE
                     ELSE a.suppressed \/ (~d.handler /\ r.refreshes = 0),
      calls      |-> a.calls + 1,
      ticks      |-> a.ticks ]

SessionInit ==
    /\ now = 0
    /\ \E outcome \in Outcomes :
          /\ device = DeviceNew(0, outcome)
          /\ acq = AcqNew(outcome)
    /\ last = NoCall

Recorded(op, r) ==
    [ op |-> op, at |-> now, before |-> device, result |-> r.result,
      acquires |-> r.acquires, refreshes |-> r.refreshes, events |-> r.events, acq |-> acq ]

Tick ==
    /\ acq.ticks < MaxTicks
    /\ \E dt \in TimeSteps : now' = now + dt
    /\ acq' = [acq EXCEPT !.ticks = @ + 1]
    /\ UNCHANGED <<device, last, notSession>>

TryRefreshSession ==
    /\ acq.calls < MaxCalls
    /\ \E outcome \in Outcomes :
          LET r == try_refresh_session(device, now, outcome)
          IN /\ device' = r.device
             /\ last' = Recorded("try_refresh_session", r)
             /\ acq' = AcqAfter(acq, device, r, now)
    /\ UNCHANGED <<now, notSession>>

RefreshSession ==
    /\ acq.calls < MaxCalls
    /\ \E outcome \in Outcomes :
          LET r == refresh_session(device, now, outcome)
          IN /\ device' = r.device
             /\ last' = Recorded("refresh_session", r)
             /\ acq' = AcqAfter(acq, device, r, now)
    /\ UNCHANGED <<now, notSession>>

SessionNext == Tick \/ TryRefreshSession \/ RefreshSession

\* The session part at rest, for the specifications of the other parts.
SessionIdle ==
    /\ now = 0
    /\ device = DeviceNew(0, "ok")
    /\ acq = AcqNew("ok")
    /\ last = NoCall

(***************************************************************************)
(* tapo/device/mod.rs: impl TapoDeviceExt for Device.  reset, get_info,    *)
(* get_info_json, get_usage, on and off share one shape:                   *)
(*     let mut result = handler_fn!(op on self);                           *)
(*     if result.is_session_timeout() {                                    *)
(*         self.refresh_session().await?;                                  *)
(*         result = handler_fn!(op on self);                               *)
(*     }                                                                   *)
(*     result.map_tapo_err(self).await                                     *)
(* Every await is a step of its own.                                       *)
(***************************************************************************)
ExtOps == {"reset", "get_info", "get_info_json", "get_usage", "on", "off"}

\* What a call of the handler returns: Ok, the session-expired error of the
\* device, or any other tapo::Error (a timeout, a transport or protocol error).
HandlerResults == {"Ok", "SessionTimeout", "Other"}

\* number of TapoDeviceExt operations in one behaviour
MaxExtCalls == 2

is_session_timeout_AnyError(result) == result # "Ok"

\* error.rs: TapoErrorExt::is_session_timeout for Result<T, tapo::Error>
is_session_timeout(result) == result = "SessionTimeout"

\* TapoErrMap::map_tapo_err: the tonic status a handler result becomes
map_tapo_err(result) ==
    CASE result = "Ok"             -> "Ok"
      [] result = "SessionTimeout" -> "SessionExpired"
      [] OTHER                     -> "Internal"

ExtIdle ==
    [ pc |-> "idle", op |-> "none", handler |-> TRUE, result |-> "none", first |-> "none",
      invoked |-> 0, refreshed |-> 0, refresh_result |-> "none", returned |-> "none",
      calls |-> 0 ]

\* A caller starts one of the operations on a device with or without a handler.
ExtCall ==
    /\ ext.pc \in {"idle", "done"}
    /\ ext.calls < MaxExtCalls
    /\ \E op \in ExtOps, h \in BOOLEAN :
          ext' = [ExtIdle EXCEPT !.pc = "first", !.op = op, !.handler = h,
                                 !.calls = ext.calls + 1]
    /\ UNCHANGED notRetry

\* handler_fn!(op on self): get_handler_mut()? and the handler's call
ExtFirstInvoke ==
    /\ ext.pc = "first"
    /\ IF ~ext.handler
       THEN ext' = [ext EXCEPT !.pc = "done", !.returned = "Unauthenticated"]
       ELSE \E r \in HandlerResults :
               ext' = [ext EXCEPT !.result = r, !.first = r, !.invoked = @ + 1,
                                  !.pc = IF is_session_timeout(r) THEN "refresh" ELSE "map"]
    /\ UNCHANGED notRetry

\* self.refresh_session().await?  (TapoDeviceExt::refresh_session, lines 33-45)
ExtRefresh ==
    /\ ext.pc = "refresh"
    /\ \E o \in Outcomes :
          ext' = IF o = "ok"
                 THEN [ext EXCEPT !.refreshed = @ + 1, !.refresh_result = "Ok", !.pc = "second"]
                 ELSE [ext EXCEPT !.refreshed = @ + 1, !.refresh_result = "Err",
                                  !.returned = "Internal", !.pc = "done"]
    /\ UNCHANGED notRetry

\* result = handler_fn!(op on self)
ExtSecondInvoke ==
    /\ ext.pc = "second"
    /\ \E r \in HandlerResults :
          ext' = [ext EXCEPT !.result = r, !.invoked = @ + 1, !.pc = "map"]
    /\ UNCHANGED notRetry

\* result.map_tapo_err(self).await
ExtReturn ==
    /\ ext.pc = "map"
    /\ ext' = [ext EXCEPT !.returned = map_tapo_err(ext.result), !.pc = "done"]
    /\ UNCHANGED notRetry

RetryIdle == ext = ExtIdle

(***************************************************************************)
(* tapo/state.rs: the per-device cache of InfoResponse snapshots.          *)
(* Option<T> is a sequence: None is <<>>, Some(v) is <<v>>.                *)
(***************************************************************************)
None == <<>>

Some(v) == <<v>>

INFO_VALIDITY_MILLIS == 30000

DeviceTypes == {"ColorLight", "Light", "Generic"}

\* InfoResponse::default()
InfoDefault ==
    [ device_on |-> None, on_time |-> None, brightness |-> None, hue |-> None,
      saturation |-> None, temperature |-> None, overheated |-> FALSE,
      dynamic_effect_id |-> None, color |-> None ]

\* color.rs any_to_rgb: hue, saturation and brightness decide the colour when all
\* three are set, the temperature otherwise.  The colour is kept as the values it
\* is computed from.
any_to_rgb(temperature, hue, saturation, brightness) ==
    IF hue # None /\ saturation # None /\ brightness # None
    THEN Some([from |-> "hsl", a |-> hue[1], b |-> saturation[1], c |-> brightness[1]])
    ELSE IF temperature # None
         THEN Some([from |-> "kelvin", a |-> temperature[1], b |-> 0, c |-> 0])
         ELSE None

\* What get_device_info of the tapo library may report (the fields the daemon reads).
RawInfo(on, on_time, hue_saturation) ==
    [ device_on |-> on, on_time |-> on_time, brightness |-> 80,
      hue |-> hue_saturation, saturation |-> hue_saturation,
      color_temp |-> IF hue_saturation = None THEN 2700 ELSE 0,
      overheated |-> FALSE, dynamic_light_effect_id |-> None ]

RawInfos ==
    { RawInfo(TRUE, Some(7), None), RawInfo(FALSE, None, None),
      RawInfo(TRUE, Some(7), Some(50)) }

\* refresh_info: the InfoResponse built from the handler's answer, per handler variant
InfoFromDevice(type, raw) ==
    CASE type = "Light" ->
            [InfoDefault EXCEPT !.brightness = Some(raw.brightness),
                                !.device_on = Some(raw.device_on),
                                !.on_time = raw.on_time,
                                !.overheated = raw.overheated]
      [] type = "Generic" ->
            [InfoDefault EXCEPT !.device_on = Some(raw.device_on),
                                !.on_time = raw.on_time]
      [] OTHER ->
            [ brightness |-> Some(raw.brightness), hue |-> raw.hue,
              saturation |-> raw.saturation, temperature |-> Some(raw.color_temp),
              device_on |-> Some(raw.device_on), on_time |-> raw.on_time,
              dynamic_effect_id |-> raw.dynamic_light_effect_id,
              overheated |-> raw.overheated,
              color |-> any_to_rgb(Some(raw.color_temp), raw.hue, raw.saturation,
                                   Some(raw.brightness)) ]

StateChangeEvent(response) == [type |-> "DeviceStateChange", body |-> response]

\* refresh_info(device, send_state).  answer is what the device returns: Some(raw
\* info), or None for an error.  Without a handler the device is not asked.
refresh_info(d, type, answer, send_state) ==
    IF ~d.handler
    THEN [ result |-> "Err", response |-> InfoDefault, queries |-> 0, events |-> <<>> ]
    ELSE IF answer = None
    THEN [ result |-> "Err", response |-> InfoDefault, queries |-> 1, events |-> <<>> ]
    ELSE LET response == InfoFromDevice(type, answer[1])
         IN [ result |-> "Ok", response |-> response, queries |-> 1,
              events |-> IF send_state THEN <<StateChangeEvent(response)>> ELSE <<>> ]

\* Duration::as_secs of now.duration_since(created).unwrap_or_default()
ElapsedSecs(created, t) == IF t >= created THEN (t - created) \div 1000 ELSE 0

\* the copy returned from the cache: on_time moved on by the elapsed seconds
CachedCopy(entry, t) ==
    [entry.response EXCEPT !.on_time =
        IF @ = None THEN None ELSE Some(@[1] + ElapsedSecs(entry.created, t))]

\* The test both get_info and get_info_silent make before returning the copy.
ReturnsCached(entry, t) == entry.created + INFO_VALIDITY_MILLIS < t

\* State::get_info: new cache entry, result, returned snapshot, device queries, events
get_info(i, d, type, t, answer) ==
    IF i # None /\ ReturnsCached(i[1], t)
    THEN [ info |-> i, result |-> "Ok", returned |-> CachedCopy(i[1], t),
           queries |-> 0, events |-> <<>> ]
    ELSE [ info |-> i, result |-> "Ok", returned |-> InfoDefault,
           queries |-> 0, events |-> <<>> ]

get_info_silent_Loud(i, d, type, t, answer) ==
    IF i # None /\ ReturnsCached(i[1], t)
    THEN [ info |-> i, result |-> "Ok", returned |-> CachedCopy(i[1], t),
           queries |-> 0, events |-> <<>> ]
    ELSE LET r == refresh_info(d, type, answer, TRUE)
         IN IF r.result = "Err"
            THEN [ info |-> i, result |-> "Err", returned |-> InfoDefault,
                   queries |-> r.queries, events |-> r.events ]
            ELSE [ info |-> Some([response |-> r.response, created |-> t]),
                   result |-> "Ok", returned |-> r.response,
                   queries |-> r.queries, events |-> r.events ]

\* State::get_info_silent
get_info_silent(i, d, type, t, answer) ==
    IF i # None /\ ReturnsCached(i[1], t)
    THEN [ info |-> i, result |-> "Ok", returned |-> CachedCopy(i[1], t),
           queries |-> 0, events |-> <<>> ]
    ELSE LET r == refresh_info(d, type, answer, FALSE)
         IN IF r.result = "Err"
            THEN [ info |-> i, result |-> "Err", returned |-> InfoDefault,
                   queries |-> r.queries, events |-> r.events ]
            ELSE [ info |-> Some([response |-> r.response, created |-> t]),
                   result |-> "Ok", returned |-> r.response,
                   queries |-> r.queries, events |-> r.events ]

SameAsCached_Never(i, response) == FALSE

\* update_info_optimistically returns early when the snapshot is the cached one
SameAsCached(i, response) == i # None /\ i[1].response = response

\* State::update_info_optimistically
update_info_optimistically(i, t, response) ==
    IF SameAsCached(i, response)
    THEN [ info |-> i, result |-> "Ok", returned |-> response, queries |-> 0,
           events |-> <<>> ]
    ELSE [ info |-> Some([response |-> response, created |-> t]), result |-> "Ok",
           returned |-> response, queries |-> 0,
           events |-> <<StateChangeEvent(response)>> ]

(***************************************************************************)
(* The cache specification: one device, the clock and the callers of State *)
(***************************************************************************)
\* number of clock advances and of calls on State in one behaviour
MaxCacheTicks == 2

MaxCacheCalls == 3

CacheTimeSteps == { 1, 1500, INFO_VALIDITY_MILLIS - 1, INFO_VALIDITY_MILLIS }

\* the snapshots written optimistically
Snapshots == { InfoFromDevice(dtype, raw) : raw \in RawInfos }

Answers == { Some(raw) : raw \in RawInfos } \cup {None}

NoCacheCall ==
    [ op |-> "none", at |-> 0, before |-> None, arg |-> InfoDefault, answer |-> None,
      result |-> "Ok",
      returned |-> InfoDefault, queries |-> 0, events |-> <<>>,
      prev |-> [op |-> "none", arg |-> InfoDefault, nevents |-> 0],
      calls |-> 0, ticks |-> 0 ]

CacheRecorded(op, arg, answer, r) ==
    [ op |-> op, at |-> now, before |-> info, arg |-> arg, answer |-> answer,
      result |-> r.result,
      returned |-> r.returned, queries |-> r.queries, events |-> r.events,
      prev |-> [op |-> clast.op, arg |-> clast.arg, nevents |-> Len(clast.events)],
      calls |-> clast.calls + 1, ticks |-> clast.ticks ]

CacheInit ==
    /\ now = 0
    /\ \E outcome \in Outcomes : device = DeviceNew(0, outcome)
    /\ dtype \in DeviceTypes
    /\ info = None
    /\ clast = NoCacheCall

CacheTick ==
    /\ clast.ticks < MaxCacheTicks
    /\ \E dt \in CacheTimeSteps : now' = now + dt
    /\ clast' = [clast EXCEPT !.ticks = @ + 1]
    /\ UNCHANGED <<device, dtype, info, notCache>>

GetInfo ==
    /\ clast.calls < MaxCacheCalls
    /\ \E answer \in Answers :
          LET r == get_info(info, device, dtype, now, answer)
          IN /\ info' = r.info
             /\ clast' = CacheRecorded("get_info", InfoDefault, answer, r)
    /\ UNCHANGED <<now, device, dtype, notCache>>

GetInfoSilent ==
    /\ clast.calls < MaxCacheCalls
    /\ \E answer \in Answers :
          LET r == get_info_silent(info, device, dtype, now, answer)
          IN /\ info' = r.info
             /\ clast' = CacheRecorded("get_info_silent", InfoDefault, answer, r)
    /\ UNCHANGED <<now, device, dtype, notCache>>

UpdateInfoOptimistically ==
    /\ clast.calls < MaxCacheCalls
    /\ \E response \in Snapshots :
          LET r == update_info_optimistically(info, now, response)
          IN /\ info' = r.info
             /\ clast' = CacheRecorded("update_info_optimistically", response, None, r)
    /\ UNCHANGED <<now, device, dtype, notCache>>

CacheNext == CacheTick \/ GetInfo \/ GetInfoSilent \/ UpdateInfoOptimistically

\* `now` is SystemTime::now() (state.rs:48, 133, 166), the clock of the operating
\* system, which an administrator or a time service can set back
SetBackSteps == {1500}

ClockSetBack ==
    /\ clast.ticks < MaxCacheTicks
    /\ \E dt \in SetBackSteps : dt <= now /\ now' = now - dt
    /\ clast' = [clast EXCEPT !.ticks = @ + 1]
    /\ UNCHANGED <<device, dtype, info, notCache>>

WallClockNext == CacheNext \/ ClockSetBack

CacheIdle ==
    /\ dtype = "Light"
    /\ info = None
    /\ clast = NoCacheCall

(***************************************************************************)
(* Event fan-out.  start_server makes one broadcast channel of capacity 10 *)
(* (tapo/mod.rs:41); State and Device send on it without waiting.  Every   *)
(* Events call (tapo/server.rs:77-104) makes an mpsc channel of depth 4,   *)
(* resubscribes to the broadcast channel and spawns a task that forwards   *)
(* the events of the requested types to the mpsc channel; the consumer is  *)
(* the ReceiverStream handed to the client.                                *)
(*                                                                         *)
(* The broadcast channel is the sequence of everything sent (log) and one  *)
(* position per receiver: a receiver that has taken `next` events takes    *)
(* log[next + 1] next.  The channel retains the newest BROADCAST_CAPACITY  *)
(* events; a recv of a receiver whose next event is no longer retained     *)
(* answers Err(Lagged).                                                    *)
(***************************************************************************)
BROADCAST_CAPACITY == 10

STREAM_QUEUE_DEPTH == 4

EventTypes == {"DeviceStateChange", "DeviceAuthChange"}

\* EventRequest.types: the empty list, or a list of event types
Filters == SUBSET EventTypes

\* the n-th event sent; n tells events of one type apart
Event(type, n) == [type |-> type, n |-> n]

\* Err(Status::internal("Error whilst receiving event"))
ErrorItem == [type |-> "Error", n |-> 0]

IsEvent(item) == item.type \in EventTypes

Subs == {1, 2}

\* an Events call that has not been made
NoSub ==
    [pc |-> "none", types |-> {}, start |-> 0, next |-> 0, held |-> None,
     queue |-> <<>>, open |-> FALSE, got |-> <<>>, lagged |-> FALSE]

\* broadcast::Sender::send is not async: it never waits for a receiver
SendReady_Backpressure(l, ss) == \A s \in Subs : Len(ss[s].queue) < STREAM_QUEUE_DEPTH

SendReady(l, ss) == TRUE

\* self.sender.send(event), state.rs:53 and device.rs:153
Send(type) ==
    /\ SendReady(log, sub)
    /\ log' = Append(log, Event(type, Len(log) + 1))
    /\ UNCHANGED <<sub, notBus>>

\* events(): channel(4), resubscribe() at the current tail, spawn
SubscribeAs(s, types) ==
    /\ sub[s].pc = "none"
    /\ sub' = [sub EXCEPT ![s] =
                  [pc |-> "recv", types |-> types, start |-> Len(log), next |-> Len(log),
                   held |-> None, queue |-> <<>>, open |-> TRUE, got |-> <<>>,
                   lagged |-> FALSE]]
    /\ UNCHANGED <<log, notBus>>

\* types.contains(&event.type) || types.is_empty()
Matches_Everything(types, type) == TRUE

Matches(types, type) == type \in types \/ types = {}

\* receiver.recv() of a receiver at position next, the channel holding tail events
Lagged(next, tail) == next < tail - BROADCAST_CAPACITY

\* tx.send(item).await on the mpsc channel: Err when the receiver is gone,
\* done at once when there is room, waiting otherwise
MpscSend(r) ==
    IF ~r.open THEN "closed"
    ELSE IF Len(r.queue) < STREAM_QUEUE_DEPTH THEN "sent" ELSE "wait"

\* tx.send(Ok(event)).await: Ok(_) => {}, Err(_) => return
ForwardEvent(r, event) ==
    CASE MpscSend(r) = "closed" -> [r EXCEPT !.pc = "done", !.held = None]
      [] MpscSend(r) = "sent"   -> [r EXCEPT !.pc = "recv", !.held = None,
                                             !.queue = Append(@, event)]
      [] OTHER                  -> [r EXCEPT !.pc = "send", !.held = Some(event)]

\* tx.send(Err(Status::internal(..))).await.unwrap(); return
ForwardError(r) ==
    CASE MpscSend(r) = "closed" -> [r EXCEPT !.pc = "panicked"]
      [] MpscSend(r) = "sent"   -> [r EXCEPT !.pc = "done", !.queue = Append(@, ErrorItem)]
      [] OTHER                  -> [r EXCEPT !.pc = "send_err"]

\* the Err(_) arm of the match on receiver.recv()
OnLagged_Continue(r, tail) == [r EXCEPT !.next = tail - BROADCAST_CAPACITY]

OnLagged(r, tail) == ForwardError([r EXCEPT !.lagged = TRUE])

\* one turn of the loop from receiver.recv().await
OnRecv(r, l) ==
    IF Lagged(r.next, Len(l)) THEN OnLagged(r, Len(l))
    ELSE LET event == l[r.next + 1]
             taken == [r EXCEPT !.next = @ + 1]
         IN  IF Matches(r.types, event.type) THEN ForwardEvent(taken, event) ELSE taken

\* the task can take a step: an event or a lag is there to receive, or the
\* send it waits in can finish
TaskReady(r, l) ==
    \/ r.pc = "recv" /\ r.next < Len(l)
    \/ r.pc \in {"send", "send_err"} /\ MpscSend(r) # "wait"

ForwardStep(s) ==
    /\ TaskReady(sub[s], log)
    /\ sub' = [sub EXCEPT ![s] =
                  CASE sub[s].pc = "recv" -> OnRecv(sub[s], log)
                    [] sub[s].pc = "send" -> ForwardEvent(sub[s], sub[s].held[1])
                    [] OTHER              -> ForwardError(sub[s])]
    /\ UNCHANGED <<log, notBus>>

\* the client takes the next item of the ReceiverStream
ConsumeStep(s) ==
    /\ sub[s].open
    /\ sub[s].queue # <<>>
    /\ sub' = [sub EXCEPT ![s].got = Append(@, Head(sub[s].queue)),
                          ![s].queue = Tail(@)]
    /\ UNCHANGED <<log, notBus>>

\* the client goes away: the ReceiverStream and what it holds are dropped
DisconnectStep(s) ==
    /\ sub[s].open
    /\ sub' = [sub EXCEPT ![s].open = FALSE, ![s].queue = <<>>]
    /\ UNCHANGED <<log, notBus>>

BusIdle ==
    /\ log = <<>>
    /\ sub = [s \in Subs |-> NoSub]

(***************************************************************************)
(* The event specification: the senders, one Events call and its client.   *)
(***************************************************************************)
MaxPublished == 16

\* the senders choose the type of the first MaxMixed events; the later ones
\* are DeviceStateChange events, the kind every state-changing call sends
MaxMixed == 2

MaxSubscribeAt == 1

Publish ==
    /\ Len(log) < MaxPublished
    /\ \E type \in EventTypes :
          /\ type = "DeviceAuthChange" => Len(log) < MaxMixed
          /\ Send(type)

Subscribe ==
    /\ Len(log) <= MaxSubscribeAt
    /\ \E types \in Filters : SubscribeAs(1, types)

Forward == ForwardStep(1)

Consume == ConsumeStep(1)

Disconnect == DisconnectStep(1)

BusNext == Publish \/ Subscribe \/ Forward \/ Consume \/ Disconnect

(***************************************************************************)
(* The pair specification: the senders and two Events calls.  The client   *)
(* of subscriber 1 is slow: it takes at most MaxSlowTakes items and then   *)
(* stops, and it may go away.  The client of subscriber 2 stays and takes  *)
(* what it is given.                                                       *)
(***************************************************************************)
MaxSlowTakes == 2

\* the events of the pair specification are DeviceStateChange events
PairPublish ==
    /\ Len(log) < MaxPublished
    /\ Send("DeviceStateChange")

PairSubscribe ==
    /\ Len(log) = 0
    /\ \/ SubscribeAs(1, {})
       \/ \E types \in Filters : SubscribeAs(2, types)

PairForward == \E s \in Subs : ForwardStep(s)

PairConsume ==
    \/ ConsumeStep(2)
    \/ Len(sub[1].got) < MaxSlowTakes /\ ConsumeStep(1)

PairDisconnect == DisconnectStep(1)

PairNext == PairPublish \/ PairSubscribe \/ PairForward \/ PairConsume \/ PairDisconnect

(***************************************************************************)
(* tapo/server.rs, set(): the hue of a ColorLight.  current_hue is a u16;  *)
(* the requested value is an i32.  `current_hue -= change` with            *)
(* change > current_hue overflows: with overflow checks the call panics,   *)
(* without them the value wraps modulo 2^16.  The build decides which.     *)
(***************************************************************************)
U16 == 65536

Abs(v) == IF v < 0 THEN 0 - v ELSE v

\* (change_hue.value % 360).abs(): the remainder of i32 has the sign of the dividend
HueChange(value) == Abs(value) % 360

HueOk(h) == [panic |-> FALSE, hue |-> h]

HuePanic == [panic |-> TRUE, hue |-> 0]

\* current_hue -= change
HueSub(current, change, overflow_checks) ==
    IF change <= current THEN HueOk(current - change)
    ELSE IF overflow_checks THEN HuePanic
         ELSE HueOk((current + U16 - change) % U16)

\* current_hue += change
HueAdd(current, change, overflow_checks) ==
    IF current + change < U16 THEN HueOk(current + change)
    ELSE IF overflow_checks THEN HuePanic
         ELSE HueOk((current + change) % U16)

\* current_hue %= 360; if current_hue == 0 { current_hue = 360 }
HueWrap(h) == IF h % 360 = 0 THEN 360 ELSE h % 360

\* current_hue = min(max(current_hue, 1), 360)
HueClamp(h) == Min(Max(h, 1), 360)

\* u16::try_from(v).unwrap_or_default()
U16From(v) == IF v >= 0 /\ v < U16 THEN v ELSE 0

\* the hue that set() sends to the device for a change of the hue
transformed_hue(current, value, absolute, overflow_checks) ==
    IF absolute THEN HueOk(HueClamp(U16From(value)))
    ELSE LET moved == IF value < 0
                      THEN HueSub(current, HueChange(value), overflow_checks)
                      ELSE HueAdd(current, HueChange(value), overflow_checks)
         IN  IF moved.panic THEN HuePanic ELSE HueOk(HueClamp(HueWrap(moved.hue)))

\* if change.absolute && !(1..=360).contains(&change.value)
HueValid(value, absolute) == absolute => value \in 1..360

(***************************************************************************)
(* The set specification: a ColorLight, its cached hue and the callers of  *)
(* set().                                                                  *)
(***************************************************************************)
HueStarts == {1, 5, 180, 350, 360}

HueValues == {-721, -720, -361, -360, -359, -350, -20, -6, -5, -1, 0,
              1, 10, 20, 180, 359, 360, 361, 400, 720}

NoSetCall ==
    [op |-> "none", before |-> 0, value |-> 0, absolute |-> FALSE,
     result |-> "none", hue |-> 0]

SetInit ==
    /\ lamp \in {[hue |-> h] : h \in HueStarts}
    /\ slast = NoSetCall

SetHue ==
    \E value \in HueValues, absolute \in BOOLEAN, overflow_checks \in BOOLEAN :
        LET current == U16From(lamp.hue)
            r == transformed_hue(current, value, absolute, overflow_checks)
            result == IF ~HueValid(value, absolute) THEN "invalid_argument"
                      ELSE IF r.panic THEN "panic" ELSE "ok"
        IN  /\ lamp' = IF result = "ok" THEN [lamp EXCEPT !.hue = r.hue] ELSE lamp
            /\ slast' = [op |-> "set", before |-> lamp.hue, value |-> value,
                         absolute |-> absolute, result |-> result,
                         hue |-> IF result = "ok" THEN r.hue ELSE 0]
            /\ UNCHANGED notSet

SetNext == SetHue

SetIdle ==
    /\ lamp = [hue |-> 360]
    /\ slast = NoSetCall

(***************************************************************************)
(* tapo/server.rs, set(): brightness, saturation and temperature.          *)
(* Brightness and saturation are resolved in u8, the temperature in u16;   *)
(* the requested value is an i32.  An overflowing `-=` or `+=` panics with *)
(* overflow checks and wraps without them.                                 *)
(***************************************************************************)
U8 == 256

ValOk(v) == [panic |-> FALSE, value |-> v]

ValPanic == [panic |-> TRUE, value |-> 0]

\* u8::try_from(v).unwrap_or_default()
U8From(v) == IF v >= 0 /\ v < U8 THEN v ELSE 0

\* a - b and a + b in an unsigned type of the given modulus
UnsignedSub(a, b, modulus, overflow_checks) ==
    IF b <= a THEN ValOk(a - b)
    ELSE IF overflow_checks THEN ValPanic ELSE ValOk((a + modulus - b) % modulus)

UnsignedAdd(a, b, modulus, overflow_checks) ==
    IF a + b < modulus THEN ValOk(a + b)
    ELSE IF overflow_checks THEN ValPanic ELSE ValOk((a + b) % modulus)

\* the value after a step that may have panicked
Then(r, f(_)) == IF r.panic THEN ValPanic ELSE f(r.value)

\* fn get_transformed_brightness(info, change) -> u8
get_transformed_brightness(info_brightness, value, absolute, overflow_checks) ==
    LET current == U8From(info_brightness)
        change_abs == U8From(Max(Min(Abs(value), 100), 1))
        moved == IF absolute THEN ValOk(U8From(value))
                 ELSE IF value < 0
                      THEN UnsignedSub(current, change_abs, U8, overflow_checks)
                      ELSE UnsignedAdd(current, change_abs, U8, overflow_checks)
        Clamp(v) == ValOk(Min(Max(v, 1), 100))
    IN  Then(moved, Clamp)

\* the saturation that set() sends with a hue (server.rs:374, 389-398)
transformed_saturation(info_saturation, value, absolute, overflow_checks) ==
    LET current == U8From(info_saturation)
        change == U8From(Max(Min(Abs(value), 100), 1))
        Down(room) == UnsignedSub(current, Min(change, room), U8, overflow_checks)
        Up(room) == UnsignedAdd(current, Min(change, room), U8, overflow_checks)
    IN  IF absolute THEN ValOk(U8From(value))
        ELSE IF value < 0
             THEN Then(UnsignedSub(current, 1, U8, overflow_checks), Down)
             ELSE Then(UnsignedSub(100, current, U8, overflow_checks), Up)

\* the temperature that set() sends (server.rs:407-419)
transformed_temperature(info_temperature, value, absolute, overflow_checks) ==
    LET current == U16From(info_temperature)
        change_abs == U16From(Max(Min(Abs(value), 6500), 2500))
        moved == IF absolute THEN ValOk(U16From(value))
                 ELSE IF value < 0
                      THEN UnsignedSub(current, change_abs, U16, overflow_checks)
                      ELSE UnsignedAdd(current, change_abs, U16, overflow_checks)
        Clamp(v) == ValOk(Min(Max(v, 2500), 6500))
    IN  Then(moved, Clamp)

\* the range checks of set() on absolute changes (server.rs:321-343)
TemperatureValid(value, absolute) == absolute => value \in 2500..6500

SaturationValid(value, absolute) == absolute => value \in 1..100

BrightnessValid(value, absolute) == absolute => value \in 1..100

(***************************************************************************)
(* The resolver specification: the callers of set() choose a cached value  *)
(* and a change of one property.                                           *)
(***************************************************************************)
PercentStarts == {1, 10, 50, 90, 100}

PercentValues == {-200, -101, -100, -99, -50, -30, -10, -1, 0, 1, 10, 30, 50, 99, 100, 101, 200}

TemperatureStarts == {2500, 2700, 4000, 6000, 6500}

TemperatureValues == {-7000, -6500, -4000, -2500, -1500, -100, -1, 0,
                      1, 100, 1500, 2500, 4000, 6500, 7000}

NoDelta ==
    [property |-> "none", current |-> 0, value |-> 0, absolute |-> FALSE,
     result |-> "none", resolved |-> 0]

Resolved(property, current, value, absolute, valid, r) ==
    [property |-> property, current |-> current, value |-> value, absolute |-> absolute,
     result |-> IF ~valid THEN "invalid_argument" ELSE IF r.panic THEN "panic" ELSE "ok",
     resolved |-> IF valid /\ ~r.panic THEN r.value ELSE 0]

ResolveBrightness ==
    \E current \in PercentStarts, value \in PercentValues,
       absolute \in BOOLEAN, overflow_checks \in BOOLEAN :
        /\ delta' = Resolved("brightness", current, value, absolute,
                             BrightnessValid(value, absolute),
                             get_transformed_brightness(current, value, absolute, overflow_checks))
        /\ UNCHANGED notDelta

ResolveSaturation ==
    \E current \in PercentStarts, value \in PercentValues,
       absolute \in BOOLEAN, overflow_checks \in BOOLEAN :
        /\ delta' = Resolved("saturation", current, value, absolute,
                             SaturationValid(value, absolute),
                             transformed_saturation(current, value, absolute, overflow_checks))
        /\ UNCHANGED notDelta

ResolveTemperature ==
    \E current \in TemperatureStarts, value \in TemperatureValues,
       absolute \in BOOLEAN, overflow_checks \in BOOLEAN :
        /\ delta' = Resolved("temperature", current, value, absolute,
                             TemperatureValid(value, absolute),
                             transformed_temperature(current, value, absolute, overflow_checks))
        /\ UNCHANGED notDelta

DeltaNext == ResolveBrightness \/ ResolveSaturation \/ ResolveTemperature

DeltaIdle == delta = NoDelta

(***************************************************************************)
(* tapo/server.rs: the RPC handlers of TapoService.  Every handler looks   *)
(* the device up by name, locks its Mutex, calls try_refresh_session and   *)
(* then works on the handler of the device; the guard is dropped when the  *)
(* handler returns.                                                        *)
(*                                                                         *)
(* A SetRequest: power, color and the four changes are Options; a change   *)
(* is an IntegerValueChange [value, absolute].                             *)
(***************************************************************************)
Change(value, absolute) == [value |-> value, absolute |-> absolute]

SetRequest(power, brightness, temperature, hue, saturation, color) ==
    [power |-> power, brightness |-> brightness, temperature |-> temperature,
     hue |-> hue, saturation |-> saturation, color |-> color]

\* Option::unwrap_or_default of an Option<u32>
OrDefault(option) == IF option = None THEN 0 ELSE option[1]

\* Option::or
OrElse(option, other) == IF option = None THEN other ELSE option

\* color.rs, TapoColorExt::hst: (hue, saturation, temperature) of a named color
hst(color) ==
    CASE color = "CoolWhite" -> <<0, 100, 4000>>
      [] color = "Daylight" -> <<0, 100, 5000>>
      [] color = "Ivory" -> <<0, 100, 6000>>
      [] color = "WarmWhite" -> <<0, 100, 3000>>
      [] color = "Incandescent" -> <<0, 100, 2700>>
      [] color = "Candlelight" -> <<0, 100, 2500>>
      [] color = "Snow" -> <<0, 100, 6500>>
      [] color = "GhostWhite" -> <<0, 100, 6500>>
      [] color = "AliceBlue" -> <<208, 5, 0>>
      [] color = "LightGoldenrod" -> <<54, 28, 0>>
      [] color = "LemonChiffon" -> <<54, 19, 0>>
      [] color = "AntiqueWhite" -> <<0, 100, 5500>>
      [] color = "Gold" -> <<50, 100, 0>>
      [] color = "Peru" -> <<29, 69, 0>>
      [] color = "Chocolate" -> <<30, 100, 0>>
      [] color = "SandyBrown" -> <<27, 60, 0>>
      [] color = "Coral" -> <<16, 68, 0>>
      [] color = "Pumpkin" -> <<24, 90, 0>>
      [] color = "Tomato" -> <<9, 72, 0>>
      [] color = "Vermilion" -> <<4, 77, 0>>
      [] color = "OrangeRed" -> <<16, 100, 0>>
      [] color = "Pink" -> <<349, 24, 0>>
      [] color = "Crimson" -> <<348, 90, 0>>
      [] color = "DarkRed" -> <<0, 100, 0>>
      [] color = "HotPink" -> <<330, 58, 0>>
      [] color = "Smitten" -> <<329, 67, 0>>
      [] color = "MediumPurple" -> <<259, 48, 0>>
      [] color = "BlueViolet" -> <<271, 80, 0>>
      [] color = "Indigo" -> <<274, 100, 0>>
      [] color = "LightSkyBlue" -> <<202, 46, 0>>
      [] color = "CornflowerBlue" -> <<218, 57, 0>>
      [] color = "Ultramarine" -> <<254, 100, 0>>
      [] color = "DeepSkyBlue" -> <<195, 100, 0>>
      [] color = "Azure" -> <<210, 100, 0>>
      [] color = "NavyBlue" -> <<240, 100, 0>>
      [] color = "LightTurquoise" -> <<180, 26, 0>>
      [] color = "Aquamarine" -> <<159, 50, 0>>
      [] color = "Turquoise" -> <<174, 71, 0>>
      [] color = "LightGreen" -> <<120, 39, 0>>
      [] color = "Lime" -> <<75, 100, 0>>
      [] color = "ForestGreen" -> <<120, 75, 0>>

\* what handler.set() has been told before send(): the builder of the tapo library
NoCommand ==
    [brightness |-> None, hue_saturation |-> None, color_temperature |-> None,
     color |-> None, power |-> None]

\* the state of set() while it works through the request: the snapshot, the
\* builder, and whether an arithmetic overflow has panicked the handler
Working(i, set) == [panic |-> FALSE, info |-> i, set |-> set]

Panicked(w) == [w EXCEPT !.panic = TRUE]

\* info.device_on = Some(true); info.on_time = info.on_time.or(Some(0))
SwitchedOn(i) == [i EXCEPT !.device_on = Some(TRUE), !.on_time = OrElse(@, Some(0))]

\* if let Some(change) = brightness (server.rs:365-371)
ApplyBrightness(w, request, overflow_checks) ==
    IF w.panic \/ request.brightness = None THEN w
    ELSE LET change == request.brightness[1]
             r == get_transformed_brightness(OrDefault(w.info.brightness), change.value,
                                             change.absolute, overflow_checks)
         IN  IF r.panic THEN Panicked(w)
             ELSE Working(SwitchedOn([w.info EXCEPT !.brightness = Some(r.value)]),
                          [w.set EXCEPT !.brightness = Some(r.value)])

\* if let Some((change_hue, change_saturation)) = hue.zip(saturation) (server.rs:372-406)
ApplyHueSaturation(w, request, overflow_checks) ==
    IF w.panic \/ request.hue = None \/ request.saturation = None THEN w
    ELSE LET change_hue == request.hue[1]
             change_saturation == request.saturation[1]
             h == transformed_hue(U16From(OrDefault(w.info.hue)), change_hue.value,
                                  change_hue.absolute, overflow_checks)
             sat == transformed_saturation(OrDefault(w.info.saturation),
                                           change_saturation.value,
                                           change_saturation.absolute, overflow_checks)
         IN  IF h.panic \/ sat.panic THEN Panicked(w)
             ELSE Working(SwitchedOn([w.info EXCEPT !.hue = Some(h.hue),
                                                    !.saturation = Some(sat.value),
                                                    !.temperature = Some(0)]),
                          [w.set EXCEPT !.hue_saturation = Some(<<h.hue, sat.value>>)])

\* if let Some(change) = temperature (server.rs:407-426)
ApplyTemperature(w, request, overflow_checks) ==
    IF w.panic \/ request.temperature = None THEN w
    ELSE LET change == request.temperature[1]
             r == transformed_temperature(OrDefault(w.info.temperature), change.value,
                                          change.absolute, overflow_checks)
         IN  IF r.panic THEN Panicked(w)
             ELSE Working(SwitchedOn([w.info EXCEPT !.temperature = Some(r.value),
                                                    !.hue = None,
                                                    !.saturation = None]),
                          [w.set EXCEPT !.color_temperature = Some(r.value)])

\* the hue, saturation and temperature that a named color leaves in the snapshot
ColorSnapshot(i, color) ==
    LET hue == hst(color)[1]
        saturation == hst(color)[2]
        temperature == hst(color)[3]
    IN  [i EXCEPT !.hue = IF hue > 0 THEN Some(hue) ELSE None,
                  !.saturation = IF hue > 0 THEN Some(saturation) ELSE None,
                  !.temperature = Some(temperature)]

\* if let Some(color) = color (server.rs:427-439)
ApplyColor(w, request) ==
    IF w.panic \/ request.color = None THEN w
    ELSE Working(ColorSnapshot([w.info EXCEPT !.device_on = Some(TRUE)], request.color[1]),
                 [w.set EXCEPT !.color = request.color])

\* if let Some(power) = inner.power (server.rs:440-450)
ApplyPower(w, request) ==
    IF w.panic \/ request.power = None THEN w
    ELSE IF request.power[1]
         THEN Working(SwitchedOn(w.info), [w.set EXCEPT !.power = Some(TRUE)])
         ELSE Working([w.info EXCEPT !.device_on = Some(FALSE), !.on_time = None],
                      [w.set EXCEPT !.power = Some(FALSE)])

\* info.color = any_to_rgb(info.temperature, info.hue, info.saturation, info.brightness)
WithColor(i) ==
    [i EXCEPT !.color = any_to_rgb(i.temperature, i.hue, i.saturation, i.brightness)]

\* the ColorLight arm of set() up to set.send(handler) (server.rs:361-451): the
\* changes are worked through in the order of the code, each on what the one
\* before it left
ColorLightSet(i, request, overflow_checks) ==
    LET brightness_done == { ApplyBrightness(w, request, overflow_checks) :
                                w \in {Working(i, NoCommand)} }
        hue_saturation_done == { ApplyHueSaturation(w, request, overflow_checks) :
                                    w \in brightness_done }
        temperature_done == { ApplyTemperature(w, request, overflow_checks) :
                                 w \in hue_saturation_done }
        color_done == { ApplyColor(w, request) : w \in temperature_done }
        power_done == { ApplyPower(w, request) : w \in color_done }
    IN  CHOOSE w \in { IF v.panic THEN v ELSE Working(WithColor(v.info), v.set) :
                          v \in power_done } : TRUE

RequestValid_Always(request) == TRUE

\* the range checks of set() (server.rs:321-343)
RequestValid(request) ==
    /\ request.temperature # None =>
          TemperatureValid(request.temperature[1].value, request.temperature[1].absolute)
    /\ request.hue # None => HueValid(request.hue[1].value, request.hue[1].absolute)
    /\ request.saturation # None =>
          SaturationValid(request.saturation[1].value, request.saturation[1].absolute)
    /\ request.brightness # None =>
          BrightnessValid(request.brightness[1].value, request.brightness[1].absolute)

\* validation.rs, validate_hue_saturation: no caller in tapo/server.rs
validate_hue_saturation(hue, saturation) ==
    IF hue # None /\ saturation = None THEN "Err"
    ELSE IF hue = None /\ saturation # None THEN "Err"
    ELSE IF hue # None /\ ~HueValid(hue[1].value, hue[1].absolute) THEN "Err"
    ELSE IF saturation # None /\ ~SaturationValid(saturation[1].value, saturation[1].absolute)
    THEN "Err"
    ELSE "Ok"

(***************************************************************************)
(* What a handler does once the session check has passed.  An Outcome is   *)
(* the status returned, the cache entry left behind, the calls made on the *)
(* device handler, the get_device_info queries made for the cache, whether *)
(* State was used, the events sent and the snapshot returned.              *)
(***************************************************************************)
Outcome(result, i, device_calls, queries, cache_touched, events, returned) ==
    [result |-> result, info |-> i, device_calls |-> device_calls, queries |-> queries,
     cache_touched |-> cache_touched, events |-> events, returned |-> returned]

\* an error return before anything was done
Refused(result, i) == Outcome(result, i, <<>>, 0, FALSE, <<>>, None)

DeviceCall(op, params) == [op |-> op, params |-> params]

\* the first error of the calls made (err = err.or(Some(error)))
FirstError(results) ==
    LET failed == SelectSeq(results, LAMBDA r : r # "Ok")
    IN  IF failed = <<>> THEN "Ok" ELSE failed[1]

SetColorLight_WrittenFirst(request, d, type, i, t, answer, r1, overflow_checks) ==
    LET g == get_info_silent(i, d, type, t, answer)
        w == ColorLightSet(g.returned, request, overflow_checks)
        u == update_info_optimistically(g.info, t, w.info)
    IN  IF g.result # "Ok" THEN Outcome("Internal", g.info, <<>>, g.queries, TRUE, g.events, None)
        ELSE IF w.panic THEN Outcome("panic", g.info, <<>>, g.queries, TRUE, g.events, None)
        ELSE Outcome(map_tapo_err(r1), u.info, <<DeviceCall("set", w.set)>>, g.queries, TRUE,
                     g.events \o u.events, IF r1 = "Ok" THEN Some(w.info) ELSE None)

\* the ColorLight arm of set() (server.rs:361-455)
SetColorLight(request, d, type, i, t, answer, r1, overflow_checks) ==
    LET g == get_info_silent(i, d, type, t, answer)
        w == ColorLightSet(g.returned, request, overflow_checks)
        u == update_info_optimistically(g.info, t, w.info)
    IN  IF g.result # "Ok" THEN Outcome("Internal", g.info, <<>>, g.queries, TRUE, g.events, None)
        ELSE IF w.panic THEN Outcome("panic", g.info, <<>>, g.queries, TRUE, g.events, None)
        ELSE IF r1 # "Ok"
        THEN Outcome(map_tapo_err(r1), g.info, <<DeviceCall("set", w.set)>>, g.queries,
                     TRUE, g.events, None)
        ELSE Outcome("Ok", u.info, <<DeviceCall("set", w.set)>>, g.queries, TRUE,
                     g.events \o u.events, Some(w.info))

\* the Light arm of set() (server.rs:457-507): brightness and power only, the
\* cache is written whatever the device answered
SetLight(request, d, type, i, t, answer, r1, r2, overflow_checks) ==
    LET g == get_info_silent(i, d, type, t, answer)
        change == request.brightness[1]
        b == IF request.brightness = None THEN ValOk(0)
             ELSE get_transformed_brightness(OrDefault(g.returned.brightness), change.value,
                                             change.absolute, overflow_checks)
        calls1 == IF request.brightness = None THEN <<>>
                  ELSE <<DeviceCall("set_brightness", b.value)>>
        results1 == IF request.brightness = None THEN <<>> ELSE <<r1>>
        i1 == IF request.brightness # None /\ r1 = "Ok"
              THEN SwitchedOn([g.returned EXCEPT !.brightness = Some(b.value)])
              ELSE g.returned
        calls2 == IF request.power = None THEN <<>>
                  ELSE <<DeviceCall(IF request.power[1] THEN "on" ELSE "off", None)>>
        results2 == IF request.power = None THEN <<>> ELSE <<r2>>
        i2 == IF request.power # None /\ r2 = "Ok"
              THEN [i1 EXCEPT !.device_on = Some(request.power[1]),
                              !.on_time = OrElse(@, Some(0))]
              ELSE i1
        u == update_info_optimistically(g.info, t, i2)
        err == FirstError(results1 \o results2)
    IN  IF g.result # "Ok" THEN Outcome("Internal", g.info, <<>>, g.queries, TRUE, g.events, None)
        ELSE IF b.panic THEN Outcome("panic", g.info, <<>>, g.queries, TRUE, g.events, None)
        ELSE Outcome(map_tapo_err(err), u.info, calls1 \o calls2, g.queries, TRUE,
                     g.events \o u.events, IF err = "Ok" THEN Some(i2) ELSE None)

\* the Generic arm of set() (server.rs:509-525): power only
SetGeneric(request, d, type, i, t, answer, r1) ==
    LET g == get_info_silent(i, d, type, t, answer)
        calls == IF request.power = None THEN <<>>
                 ELSE <<DeviceCall(IF request.power[1] THEN "on" ELSE "off", None)>>
        i1 == IF request.power = None THEN g.returned
              ELSE IF request.power[1] THEN SwitchedOn(g.returned)
              ELSE [g.returned EXCEPT !.device_on = Some(FALSE), !.on_time = None]
        u == update_info_optimistically(g.info, t, i1)
    IN  IF g.result # "Ok" THEN Outcome("Internal", g.info, <<>>, g.queries, TRUE, g.events, None)
        ELSE IF request.power # None /\ r1 # "Ok"
        THEN Outcome(map_tapo_err(r1), g.info, calls, g.queries, TRUE, g.events, None)
        ELSE Outcome("Ok", u.info, calls, g.queries, TRUE, g.events \o u.events, Some(i1))

\* set() after try_refresh_session (server.rs:308-527)
HandleSet(request, d, type, i, t, answer, r1, r2, overflow_checks) ==
    IF ~RequestValid(request) THEN Refused("InvalidArgument", i)
    ELSE IF ~d.handler THEN Refused("Unauthenticated", i)
    ELSE CASE type = "ColorLight" ->
                 SetColorLight(request, d, type, i, t, answer, r1, overflow_checks)
           [] type = "Light" ->
                 SetLight(request, d, type, i, t, answer, r1, r2, overflow_checks)
           [] OTHER -> SetGeneric(request, d, type, i, t, answer, r1)

HandlePower_Unchecked(on, d, type, i, t, answer, r1) ==
    Outcome("Ok", update_info_optimistically(i, t, InfoDefault).info, <<>>, 0, TRUE, <<>>, None)

\* on() and off() after try_refresh_session (server.rs:256-273, 282-299)
HandlePower(on, d, type, i, t, answer, r1) ==
    LET call == <<DeviceCall(IF on THEN "on" ELSE "off", None)>>
        g == get_info(i, d, type, t, answer)
        written == [g.returned EXCEPT !.device_on = Some(on), !.on_time = Some(0)]
        u == update_info_optimistically(g.info, t, written)
    IN  IF ~d.handler THEN Refused("Unauthenticated", i)
        ELSE IF r1 # "Ok" THEN Outcome(map_tapo_err(r1), i, call, 0, FALSE, <<>>, None)
        ELSE Outcome("Ok", u.info, call, g.queries, TRUE, g.events \o u.events, None)

HandleGated_Invoked(call, d, type, i, r1) ==
    IF ~d.handler THEN Refused("Unauthenticated", i)
    ELSE Outcome(map_tapo_err(r1), i, <<DeviceCall(call, None)>>, 0, FALSE, <<>>, None)

\* reset() and usage() after try_refresh_session (server.rs:112-124, 211-247)
HandleGated(call, d, type, i, r1) ==
    IF ~d.handler THEN Refused("Unauthenticated", i)
    ELSE IF type = "Generic" THEN Refused("Unimplemented", i)
    ELSE Outcome(map_tapo_err(r1), i, <<DeviceCall(call, None)>>, 0, FALSE, <<>>, None)

\* info() and info_json() after try_refresh_session (server.rs:134-176, 185-202)
HandleInfo(call, d, type, i, r1) ==
    IF ~d.handler THEN Refused("Unauthenticated", i)
    ELSE Outcome(map_tapo_err(r1), i, <<DeviceCall(call, None)>>, 0, FALSE, <<>>, None)

Rpcs == {"reset", "info", "info_json", "usage", "on", "off", "set"}

Handle(op, request, d, type, i, t, answer, r1, r2, overflow_checks) ==
    CASE op = "set" -> HandleSet(request, d, type, i, t, answer, r1, r2, overflow_checks)
      [] op = "on" -> HandlePower(TRUE, d, type, i, t, answer, r1)
      [] op = "off" -> HandlePower(FALSE, d, type, i, t, answer, r1)
      [] op = "reset" -> HandleGated("device_reset", d, type, i, r1)
      [] op = "usage" -> HandleGated("get_device_usage", d, type, i, r1)
      [] op = "info" -> HandleInfo("get_device_info", d, type, i, r1)
      [] OTHER -> HandleInfo("get_device_info_json", d, type, i, r1)

(***************************************************************************)
(* A request of a client, step by step: the lookup in the device map, the  *)
(* wait for the Mutex of the device, try_refresh_session, the rest of the  *)
(* handler.  What the request did is kept with it.                         *)
(***************************************************************************)
Clients == {1, 2}

\* TapoService.devices: the names in the configuration
Registry == {"lamp"}

EmptyRequest == SetRequest(None, None, None, None, None, None)

NoRpc ==
    [pc |-> "idle", op |-> "none", name |-> "", request |-> EmptyRequest,
     result |-> "none", locked |-> FALSE, session_ok |-> FALSE,
     had_handler |-> FALSE, was_due |-> FALSE,
     session_calls |-> 0, session_changed |-> FALSE, device_calls |-> <<>>,
     queries |-> 0, cache_touched |-> FALSE, cache_changed |-> FALSE,
     events |-> <<>>, returned |-> None, checks |-> 0, calls |-> 0]

EventTypesOf(events) == [n \in DOMAIN events |-> events[n].type]

RpcCalls == req[1].calls + req[2].calls

get_device_by_name_Found(name) == "Ok"

\* get_device_by_name (server.rs:40-45) at the head of every handler
get_device_by_name(name) == IF name \in Registry THEN "Ok" ELSE "NotFound"

RpcCall(c, op, name, request) ==
    /\ req[c].pc = "idle"
    /\ req' = [req EXCEPT ![c] =
                  [NoRpc EXCEPT !.op = op, !.name = name, !.request = request,
                                !.calls = req[c].calls + 1,
                                !.pc = IF get_device_by_name(name) = "Ok"
                                       THEN "lock" ELSE "idle",
                                !.result = IF get_device_by_name(name) = "Ok"
                                           THEN "none" ELSE "NotFound"]]
    /\ UNCHANGED <<now, device, dtype, info, mutex, notSvc>>

\* device.lock().await returns the guard when no other request holds it
MutexFree_Always(m) == TRUE

MutexFree(m) == m = 0

RpcLock(c) ==
    /\ req[c].pc = "lock"
    /\ MutexFree(mutex)
    /\ mutex' = c
    /\ req' = [req EXCEPT ![c].pc = "session", ![c].locked = TRUE]
    /\ UNCHANGED <<now, device, dtype, info, notSvc>>

RpcSession_Unchecked(c) ==
    /\ req[c].pc = "session"
    /\ \E outcome \in Outcomes :
          \E r \in {try_refresh_session(device, now, outcome)} :
              /\ device' = r.device
              /\ req' = [req EXCEPT ![c].pc = "handle",
                                    ![c].result = IF r.result = "Ok" THEN "none" ELSE "Internal",
                                    ![c].session_ok = (r.result = "Ok"),
                                    ![c].checks = @ + 1,
                                    ![c].had_handler = device.handler,
                                    ![c].was_due = SessionActionDue(device, now),
                                    ![c].session_calls = r.acquires + r.refreshes,
                                    ![c].session_changed = (r.device # device),
                                    ![c].events = EventTypesOf(r.events)]
              /\ mutex' = mutex
    /\ UNCHANGED <<now, dtype, info, notSvc>>

\* device.try_refresh_session().await? ; the guard is dropped on the error return
RpcSession(c) ==
    /\ req[c].pc = "session"
    /\ \E outcome \in Outcomes :
          \E r \in {try_refresh_session(device, now, outcome)} :
              /\ device' = r.device
              /\ req' = [req EXCEPT ![c].pc = IF r.result = "Ok" THEN "handle" ELSE "idle",
                                    ![c].result = IF r.result = "Ok" THEN "none" ELSE "Internal",
                                    ![c].session_ok = (r.result = "Ok"),
                                    ![c].checks = @ + 1,
                                    ![c].had_handler = device.handler,
                                    ![c].was_due = SessionActionDue(device, now),
                                    ![c].session_calls = r.acquires + r.refreshes,
                                    ![c].session_changed = (r.device # device),
                                    ![c].events = EventTypesOf(r.events)]
              /\ mutex' = IF r.result = "Ok" THEN mutex ELSE 0
    /\ UNCHANGED <<now, dtype, info, notSvc>>

\* what the device may answer to the calls a handler makes, and the build of
\* the daemon: set() asks for the info, makes up to two calls and computes in
\* unsigned integers, the other handlers make one call
Replies(op) ==
    [ answer : IF op = "set" THEN Answers ELSE {None},
      r1 : HandlerResults,
      r2 : IF op = "set" THEN HandlerResults ELSE {"Ok"},
      overflow_checks : IF op = "set" THEN BOOLEAN ELSE {FALSE} ]

\* the rest of the handler; the guard is dropped when it returns
RpcHandle(c) ==
    /\ req[c].pc = "handle"
    /\ \E reply \in Replies(req[c].op) :
          \E o \in {Handle(req[c].op, req[c].request, device, dtype, info, now,
                           reply.answer, reply.r1, reply.r2, reply.overflow_checks)} :
              /\ info' = o.info
              /\ req' = [req EXCEPT ![c].pc = "idle",
                                    ![c].result = o.result,
                                    ![c].device_calls = o.device_calls,
                                    ![c].queries = o.queries,
                                    ![c].cache_touched = o.cache_touched,
                                    ![c].cache_changed = (o.info # info),
                                    ![c].events = @ \o EventTypesOf(o.events),
                                    ![c].returned = o.returned]
    /\ mutex' = 0
    /\ UNCHANGED <<now, device, dtype, notSvc>>

(***************************************************************************)
(* The set-call specification: one client calls set() on the device, which *)
(* is in one of the session states Device::new and refresh_session leave,  *)
(* with an empty cache or an entry written earlier.                        *)
(***************************************************************************)
\* number of set() calls in one behaviour
MaxSetCalls == 1

\* the session states of the device when the request arrives: handler held and
\* refresh due, handler held and session fresh, no handler and acquisition
\* due, no handler and the acquisition put off after repeated failures
DeviceStates ==
    { DeviceNew(0, "ok"),
      DeviceNew(SESSION_VALIDITY_MILLIS, "ok"),
      DeviceNew(SESSION_VALIDITY_MILLIS, "err"),
      [ session_status |-> "RepeatedFailure",
        next_session_action |-> SESSION_VALIDITY_MILLIS + REPEATED_FAILURE_RETRY_MILLIS,
        handler |-> FALSE, refresh_retires |-> SESSION_REFRESH_RETRIES ] }

\* the cache entries of the device when the request arrives
CacheEntries(type, t) ==
    {None} \cup { Some([response |-> InfoFromDevice(type, raw),
                        created |-> t - INFO_VALIDITY_MILLIS - 1]) : raw \in RawInfos }

Absolute(value) == Some(Change(value, TRUE))

Relative(value) == Some(Change(value, FALSE))

\* one property each, inside and outside its domain, and relative changes of
\* every size
OnePropertyRequests ==
    { SetRequest(None, b, None, None, None, None) :
          b \in {Absolute(50), Absolute(0), Absolute(101), Relative(10), Relative(-100),
                 Relative(1000)} }
    \cup { SetRequest(None, None, t, None, None, None) :
          t \in {Absolute(4000), Absolute(2499), Absolute(6501), Relative(100),
                 Relative(-6500)} }
    \cup { SetRequest(None, None, None, h, None, None) :
          h \in {Absolute(120), Absolute(361), Relative(-60)} }
    \cup { SetRequest(None, None, None, None, sat, None) :
          sat \in {Absolute(40), Absolute(0), Relative(1000)} }
    \cup { SetRequest(p, None, None, None, None, None) : p \in {None, Some(TRUE), Some(FALSE)} }

\* hue and saturation together
PairRequests ==
    { SetRequest(None, None, None, h, sat, None) :
          h \in {Absolute(120), Absolute(0), Relative(-60)},
          sat \in {Absolute(40), Absolute(101), Relative(-20)} }

\* a named color, alone and with other changes
PresetRequests ==
    { SetRequest(None, None, t, h[1], h[2], Some(color)) :
          t \in {None, Absolute(4000)},
          h \in {<<None, None>>, <<Absolute(120), Absolute(40)>>, <<Absolute(120), None>>},
          color \in {"Gold", "Daylight", "DarkRed"} }
    \cup { SetRequest(Some(FALSE), Absolute(50), None, None, None, Some("Gold")) }

SetRequests == OnePropertyRequests \cup PairRequests \cup PresetRequests

SetCallInit ==
    /\ now = SESSION_VALIDITY_MILLIS
    /\ device \in DeviceStates
    /\ dtype \in DeviceTypes
    /\ info \in CacheEntries(dtype, now)
    /\ acq = AcqNew("ok")
    /\ last = NoCall
    /\ clast = NoCacheCall

SetCallStart ==
    /\ RpcCalls < MaxSetCalls
    /\ \E request \in SetRequests : RpcCall(1, "set", "lamp", request)

SetCallLock == RpcLock(1)

SetCallSession == RpcSession(1)

SetCallHandle == RpcHandle(1)

SetCallNext == SetCallStart \/ SetCallLock \/ SetCallSession \/ SetCallHandle

(***************************************************************************)
(* The service specification: two clients call the handlers of the service *)
(* for a device of the configuration or for a name that is not in it.      *)
(***************************************************************************)
\* number of calls of both clients in one behaviour
MaxRpcCalls == 2

Names == Registry \cup {"attic"}

\* what a client sends with an operation: a SetRequest with set, the device
\* name alone with the others
RequestsOf(op) ==
    IF op = "set"
    THEN { SetRequest(Some(TRUE), None, None, None, None, None),
           SetRequest(None, Absolute(101), None, None, None, None) }
    ELSE {EmptyRequest}

RpcInit ==
    /\ now = SESSION_VALIDITY_MILLIS
    /\ device \in DeviceStates
    /\ dtype \in DeviceTypes
    /\ info \in {None, Some([response |-> InfoFromDevice(dtype, RawInfo(FALSE, None, None)),
                              created |-> now - INFO_VALIDITY_MILLIS - 1])}
    /\ acq = AcqNew("ok")
    /\ last = NoCall
    /\ clast = NoCacheCall

RpcStart ==
    /\ RpcCalls < MaxRpcCalls
    /\ \E c \in Clients, op \in Rpcs, name \in Names :
          \E request \in RequestsOf(op) : RpcCall(c, op, name, request)

RpcAcquire == \E c \in Clients : RpcLock(c)

RpcCheck == \E c \in Clients : RpcSession(c)

RpcFinish == \E c \in Clients : RpcHandle(c)

RpcNext == RpcStart \/ RpcAcquire \/ RpcCheck \/ RpcFinish

(***************************************************************************)
(* The service with more than one device.  start_server logs into every    *)
(* device of the configuration and puts each Device behind a Mutex of its  *)
(* own (tapo/mod.rs:40-53); the service has one State behind one Mutex     *)
(* (server.rs:27, 47-49).  A set() call on a ColorLight is followed await  *)
(* by await: a call is suspended in the device library at pc session,      *)
(* querying and sending.                                                   *)
(***************************************************************************)
\* config.devices
ConfigDevices == {"lamp", "desk"}

\* number of set() calls and of clock advances in one behaviour
MaxFleetCalls == 2

MaxFleetTicks == 1

FleetTimeSteps == {SESSION_VALIDITY_MILLIS}

start_server_OnlyLoggedIn(t, outcomes) ==
    [n \in {m \in ConfigDevices : outcomes[m] = "ok"} |-> DeviceNew(t, outcomes[n])]

\* join_all of Device::new over config.devices, then devices.insert of each
start_server(t, outcomes) == [n \in ConfigDevices |-> DeviceNew(t, outcomes[n])]

\* task[c].at: the `now` that get_info_silent took before it asked the device;
\* task[c].polled: the lock futures that the join_all of devices() has polled once
NoTask == [pc |-> "idle", name |-> "", id |-> 0, at |-> 0, polled |-> 0]

\* trace.started_at: the time start_server ran; trace.published: the events sent on
\* the channel; trace.completed: the calls that returned; trace.accessed: the devices
\* a call has reached
NoTrace ==
    [started_at |-> None, published |-> <<>>, completed |-> <<>>, accessed |-> {},
     calls |-> 0, ticks |-> 0]

Started == trace.started_at # None

\* an event, the call that sent it and whether that call had the guard of the device
Published(name, type, c) ==
    [device |-> name, type |-> type, id |-> task[c].id, guarded |-> locks.device[name] = c]

\* the handler returns: its guard of the Device is dropped
Returned(c) ==
    /\ task' = [task EXCEPT ![c].pc = "idle", ![c].at = 0]
    /\ locks' = [locks EXCEPT !.device[task[c].name] = 0, !.state = IF @ = c THEN 0 ELSE @]

FleetStart ==
    /\ ~Started
    /\ \E outcomes \in [ConfigDevices -> Outcomes] : registry' = start_server(now, outcomes)
    /\ locks' = [device |-> [n \in DOMAIN registry' |-> 0], state |-> 0]
    /\ stored' = [n \in DOMAIN registry' |-> None]
    /\ trace' = [trace EXCEPT !.started_at = Some(now)]
    /\ UNCHANGED <<now, task, notFleet>>

FleetTick ==
    /\ trace.ticks < MaxFleetTicks
    /\ \E dt \in FleetTimeSteps : now' = now + dt
    /\ trace' = [trace EXCEPT !.ticks = @ + 1]
    /\ UNCHANGED <<registry, locks, stored, task, notFleet>>

\* set(): get_device_by_name (server.rs:304)
FleetCall(c) ==
    /\ Started
    /\ task[c].pc = "idle"
    /\ trace.calls < MaxFleetCalls
    /\ \E name \in DOMAIN registry :
          task' = [task EXCEPT ![c] = [pc |-> "lock", name |-> name, id |-> trace.calls + 1,
                                       at |-> 0, polled |-> 0]]
    /\ trace' = [trace EXCEPT !.calls = @ + 1]
    /\ UNCHANGED <<now, registry, locks, stored, notFleet>>

DeviceMutexFree_Always(holder) == TRUE

\* device.lock().await (server.rs:305)
DeviceMutexFree(holder) == holder = 0

FleetLock(c) ==
    /\ task[c].pc = "lock"
    /\ DeviceMutexFree(locks.device[task[c].name])
    /\ locks' = [locks EXCEPT !.device[task[c].name] = c]
    /\ task' = [task EXCEPT ![c].pc = "session"]
    /\ UNCHANGED <<now, registry, stored, trace, notFleet>>

\* device.try_refresh_session().await? and device.get_handler()? (server.rs:306, 360)
FleetSession(c) ==
    /\ task[c].pc = "session"
    /\ \E outcome \in Outcomes :
          \E r \in {try_refresh_session(registry[task[c].name], now, outcome)} :
              /\ registry' = [registry EXCEPT ![task[c].name] = r.device]
              /\ trace' = [trace EXCEPT
                              !.accessed = @ \cup {task[c].name},
                              !.published =
                                  @ \o [n \in DOMAIN r.events |->
                                           Published(task[c].name, r.events[n].type, c)],
                              !.completed = IF r.result = "Ok" /\ r.device.handler
                                            THEN @ ELSE Append(@, task[c].id)]
              /\ IF r.result = "Ok" /\ r.device.handler
                 THEN /\ task' = [task EXCEPT ![c].pc = "state"]
                      /\ locks' = locks
                 ELSE Returned(c)
    /\ UNCHANGED <<now, stored, notFleet>>

\* self.get_state().await.get_info_silent(&device) (server.rs:362, state.rs:163-191):
\* the guard of State is taken; a valid entry is returned at once, otherwise
\* refresh_info asks the device with the guard held
FleetStateLock(c) ==
    /\ task[c].pc = "state"
    /\ locks.state = 0
    /\ IF stored[task[c].name] # None
          /\ ReturnsCached([created |-> stored[task[c].name][1]], now)
       THEN /\ task' = [task EXCEPT ![c].pc = "sending"]
            /\ locks' = locks
       ELSE /\ task' = [task EXCEPT ![c].pc = "querying", ![c].at = now]
            /\ locks' = [locks EXCEPT !.state = c]
    /\ UNCHANGED <<now, registry, stored, trace, notFleet>>

\* the device answers get_device_info: the entry is inserted, or the error is
\* returned by `?`; the guard of State is dropped at the end of the statement
FleetQueried(c) ==
    /\ task[c].pc = "querying"
    /\ \E answer \in {"Ok", "Err"} :
          IF answer = "Ok"
          THEN /\ stored' = [stored EXCEPT ![task[c].name] = Some(task[c].at)]
               /\ task' = [task EXCEPT ![c].pc = "sending", ![c].at = 0]
               /\ locks' = [locks EXCEPT !.state = 0]
               /\ trace' = trace
          ELSE /\ stored' = stored
               /\ Returned(c)
               /\ trace' = [trace EXCEPT !.completed = Append(@, task[c].id)]
    /\ UNCHANGED <<now, registry, notFleet>>

\* set.send(handler).await.map_tapo_err(&mut device).await? (server.rs:452)
FleetSend(c) ==
    /\ task[c].pc = "sending"
    /\ \E answer \in {"Ok", "Err"} :
          IF answer = "Ok"
          THEN /\ task' = [task EXCEPT ![c].pc = "update"]
               /\ UNCHANGED <<locks, trace>>
          ELSE /\ Returned(c)
               /\ trace' = [trace EXCEPT !.completed = Append(@, task[c].id)]
    /\ UNCHANGED <<now, registry, stored, notFleet>>

\* self.get_state().await.update_info_optimistically(..) and the return
\* (server.rs:453-454): the event is sent unless the snapshot is the cached one
FleetUpdate(c) ==
    /\ task[c].pc = "update"
    /\ locks.state = 0
    /\ \E same \in BOOLEAN :
          /\ same => stored[task[c].name] # None
          /\ stored' = IF same THEN stored ELSE [stored EXCEPT ![task[c].name] = Some(now)]
          /\ trace' = [trace EXCEPT
                          !.published = IF same THEN @
                                        ELSE Append(@, Published(task[c].name, "DeviceStateChange", c)),
                          !.completed = Append(@, task[c].id)]
    /\ Returned(c)
    /\ UNCHANGED <<now, registry, notFleet>>

FleetCalls == \E c \in Clients : FleetCall(c)

FleetLocks == \E c \in Clients : FleetLock(c)

FleetSessions == \E c \in Clients : FleetSession(c)

FleetStateLocks == \E c \in Clients : FleetStateLock(c)

FleetQueries == \E c \in Clients : FleetQueried(c)

FleetSends == \E c \in Clients : FleetSend(c)

FleetUpdates == \E c \in Clients : FleetUpdate(c)

FleetNext ==
    \/ FleetStart \/ FleetTick \/ FleetCalls \/ FleetLocks \/ FleetSessions
    \/ FleetStateLocks \/ FleetQueries \/ FleetSends \/ FleetUpdates

(***************************************************************************)
(* devices() (server.rs:54-73) makes one lock future per device, in the    *)
(* order of self.devices.values(), and awaits their join_all.  join_all    *)
(* polls the futures one after the other; a future that gets its guard is  *)
(* done and the guard stays in the join_all until every future is done.    *)
(* The runtime is the multi-threaded one of #[tokio::main] (main.rs:24),   *)
(* so calls on other worker threads run between two of these polls.  The   *)
(* waiting queue of a Mutex is not modelled: a waiter takes a guard that   *)
(* it finds free.                                                          *)
(***************************************************************************)
\* self.devices.values(): the same order for every call, the map is never changed
ValuesOrder == <<"lamp", "desk">>

\* the guards the call of client c holds
Held(c) == {n \in DOMAIN locks.device : locks.device[n] = c}

ListCall(c) ==
    /\ Started
    /\ task[c].pc = "idle"
    /\ trace.calls < MaxFleetCalls
    /\ task' = [task EXCEPT ![c] = [pc |-> "list", name |-> "", id |-> trace.calls + 1,
                                    at |-> 0, polled |-> 0]]
    /\ trace' = [trace EXCEPT !.calls = @ + 1]
    /\ UNCHANGED <<now, registry, locks, stored, notFleet>>

\* the first poll of the next lock future
ListPoll(c) ==
    /\ task[c].pc = "list"
    /\ task[c].polled < Len(ValuesOrder)
    /\ \E n \in {ValuesOrder[task[c].polled + 1]} :
          locks' = IF DeviceMutexFree(locks.device[n])
                   THEN [locks EXCEPT !.device[n] = c] ELSE locks
    /\ task' = [task EXCEPT ![c].polled = @ + 1]
    /\ UNCHANGED <<now, registry, stored, trace, notFleet>>

\* a lock future that was pending is woken and gets the guard
ListWake(c) ==
    /\ task[c].pc = "list"
    /\ task[c].polled = Len(ValuesOrder)
    /\ \E n \in DOMAIN locks.device :
          /\ DeviceMutexFree(locks.device[n])
          /\ locks' = [locks EXCEPT !.device[n] = c]
    /\ UNCHANGED <<now, registry, stored, task, trace, notFleet>>

\* every future is done: the response is built and the guards are dropped
ListReturn(c) ==
    /\ task[c].pc = "list"
    /\ Held(c) = DOMAIN locks.device
    /\ locks' = [locks EXCEPT !.device = [n \in DOMAIN @ |-> 0]]
    /\ task' = [task EXCEPT ![c].pc = "idle"]
    /\ trace' = [trace EXCEPT !.completed = Append(@, task[c].id)]
    /\ UNCHANGED <<now, registry, stored, notFleet>>

ListCalls == \E c \in Clients : ListCall(c)

ListPolls == \E c \in Clients : ListPoll(c)

ListWakes == \E c \in Clients : ListWake(c)

ListReturns == \E c \in Clients : ListReturn(c)

ListNext ==
    \/ FleetStart \/ ListCalls \/ ListPolls \/ ListWakes \/ ListReturns
    \/ FleetCalls \/ FleetLocks \/ FleetSessions
    \/ FleetStateLocks \/ FleetQueries \/ FleetSends \/ FleetUpdates

FleetIdle ==
    /\ registry = <<>>
    /\ locks = [device |-> <<>>, state |-> 0]
    /\ stored = <<>>
    /\ task = [c \in Clients |-> NoTask]
    /\ trace = NoTrace

SvcIdle ==
    /\ mutex = 0
    /\ req = [c \in Clients |-> NoRpc]

RetryNext == ExtCall \/ ExtFirstInvoke \/ ExtRefresh \/ ExtSecondInvoke \/ ExtReturn

(***************************************************************************)
(* Specifications                                                          *)
(***************************************************************************)
InitSession == SessionInit /\ RetryIdle /\ CacheIdle /\ BusIdle /\ SetIdle /\ DeltaIdle /\ SvcIdle /\ FleetIdle

SpecSession == InitSession /\ [][SessionNext]_vars

InitRetry == SessionIdle /\ RetryIdle /\ CacheIdle /\ BusIdle /\ SetIdle /\ DeltaIdle /\ SvcIdle /\ FleetIdle

SpecRetry == InitRetry /\ [][RetryNext]_vars

InitCache == CacheInit /\ acq = AcqNew("ok") /\ last = NoCall /\ RetryIdle /\ BusIdle /\ SetIdle /\ DeltaIdle /\ SvcIdle /\ FleetIdle

SpecCache == InitCache /\ [][CacheNext]_vars

SpecWallClock == InitCache /\ [][WallClockNext]_vars

InitBus == SessionIdle /\ RetryIdle /\ CacheIdle /\ BusIdle /\ SetIdle /\ DeltaIdle /\ SvcIdle /\ FleetIdle

SpecBus == InitBus /\ [][BusNext]_vars

InitBusPair == SessionIdle /\ RetryIdle /\ CacheIdle /\ BusIdle /\ SetIdle /\ DeltaIdle /\ SvcIdle /\ FleetIdle

SpecBusPair == InitBusPair /\ [][PairNext]_vars

InitSet == SessionIdle /\ RetryIdle /\ CacheIdle /\ BusIdle /\ SetInit /\ DeltaIdle /\ SvcIdle /\ FleetIdle

SpecSet == InitSet /\ [][SetNext]_vars

InitDelta == SessionIdle /\ RetryIdle /\ CacheIdle /\ BusIdle /\ SetIdle /\ DeltaIdle /\ SvcIdle /\ FleetIdle

SpecDelta == InitDelta /\ [][DeltaNext]_vars

InitSetCall == SetCallInit /\ RetryIdle /\ BusIdle /\ SetIdle /\ DeltaIdle /\ SvcIdle /\ FleetIdle

SpecSetCall == InitSetCall /\ [][SetCallNext]_vars

InitRpc == RpcInit /\ RetryIdle /\ BusIdle /\ SetIdle /\ DeltaIdle /\ SvcIdle /\ FleetIdle

SpecRpc == InitRpc /\ [][RpcNext]_vars

InitFleet == SessionIdle /\ RetryIdle /\ CacheIdle /\ BusIdle /\ SetIdle /\ DeltaIdle /\ SvcIdle /\ FleetIdle

SpecFleet == InitFleet /\ [][FleetNext]_vars

SpecList == InitFleet /\ [][ListNext]_vars

\* the runtime runs a spawned task that can take a step, and the client of
\* SpecBusLive takes the items of its stream for as long as it is connected
SpecBusLive == InitBus /\ [][BusNext]_vars /\ WF_vars(Forward) /\ WF_vars(Consume)

(***************************************************************************)
(* C1  Session backoff.  For a device whose acquisition attempts all fail  *)
(* (it has no handler): once 10 attempts in a row have failed, the one of  *)
(* Device::new included, the status is RepeatedFailure; a                  *)
(* try_refresh_session made less than 10 minutes after the latest failed   *)
(* attempt makes no acquisition attempt and leaves status and failure      *)
(* count as they were; one made 10 minutes after it or later makes an      *)
(* acquisition attempt.                                                    *)
(***************************************************************************)
CooldownEnd(c) == c.acq.last_fail + REPEATED_FAILURE_RETRY_MILLIS

C1_SessionBackoff ==
    /\ (~device.handler /\ acq.failed_row >= SESSION_REFRESH_RETRIES)
          => device.session_status = "RepeatedFailure"
    /\ (last.op = "try_refresh_session" /\ last.before.session_status = "RepeatedFailure")
          => IF last.at < CooldownEnd(last)
             THEN /\ last.acquires = 0 /\ last.refreshes = 0
                  /\ device.session_status = "RepeatedFailure"
                  /\ device.refresh_retires = last.before.refresh_retires
             ELSE last.acquires = 1

\* The cooldown has run out after a suppressed access, and the access made then
\* has attempted (and failed) the acquisition once more.
C1_Witness ==
    /\ last.op = "try_refresh_session"
    /\ last.before.session_status = "RepeatedFailure"
    /\ last.acq.failed_row >= SESSION_REFRESH_RETRIES
    /\ last.acq.suppressed
    /\ last.at >= CooldownEnd(last)
    /\ last.acquires = 1
    /\ device.session_status = "RepeatedFailure"

(***************************************************************************)
(* C2  Session-expired retry, as first stated: an operation whose first    *)
(* call fails with the session-expired error is followed by exactly one    *)
(* refresh and exactly one more call of the operation; an operation that   *)
(* fails with another error is called once, without refresh or retry, and  *)
(* its error is returned.                                                  *)
(***************************************************************************)
ExtDone == ext.pc = "done" /\ ext.handler

C2_RetryAlwaysReinvokes ==
    ExtDone =>
        /\ ext.first = "SessionTimeout" => (ext.refreshed = 1 /\ ext.invoked = 2)
        /\ ext.first = "Other" =>
              (ext.refreshed = 0 /\ ext.invoked = 1 /\ ext.returned = "Internal")

(***************************************************************************)
(* C2  Session-expired retry, amended: after a first call failing with the *)
(* session-expired error exactly one refresh is made; if the refresh       *)
(* succeeds the operation is called exactly once more and the result of    *)
(* that second call is returned (its error if it fails), and if the        *)
(* refresh fails the refresh error is returned and the operation is not    *)
(* called again.  An operation failing with any other error is called once *)
(* and its error returned with no refresh.  No operation is ever called a  *)
(* third time.                                                             *)
(***************************************************************************)
C2_SessionExpiredRetry ==
    /\ ext.invoked <= 2 /\ ext.refreshed <= 1
    /\ ExtDone =>
        /\ ext.first = "SessionTimeout" =>
              /\ ext.refreshed = 1
              /\ ext.refresh_result = "Ok" =>
                    (ext.invoked = 2 /\ ext.returned = map_tapo_err(ext.result))
              /\ ext.refresh_result = "Err" =>
                    (ext.invoked = 1 /\ ext.returned = "Internal")
        /\ ext.first = "Other" =>
              (ext.refreshed = 0 /\ ext.invoked = 1 /\ ext.returned = "Internal")
        /\ ext.first = "Ok" =>
              (ext.refreshed = 0 /\ ext.invoked = 1 /\ ext.returned = "Ok")

\* The retried call has failed with the session-expired error again and that
\* error has been returned.
C2_Witness ==
    /\ ExtDone
    /\ ext.first = "SessionTimeout" /\ ext.refresh_result = "Ok"
    /\ ext.invoked = 2 /\ ext.result = "SessionTimeout"
    /\ ext.returned = "SessionExpired"

(***************************************************************************)
(* C3  Cache freshness, fresh entry.  A get_info at time t for a device    *)
(* whose cache entry was created at t0, with t - t0 < 30 s, returns the    *)
(* cached snapshot with on-time moved on by the whole seconds of t - t0    *)
(* and every other property unchanged, without a device query, without     *)
(* changing the cache entry and without publishing an event.               *)
(***************************************************************************)
EntryAge(c) == c.at - c.before[1].created

ReadOfFreshEntry(c) ==
    c.op = "get_info" /\ c.before # None /\ EntryAge(c) < INFO_VALIDITY_MILLIS

C3_FreshReadReturnsCached ==
    ReadOfFreshEntry(clast) =>
        LET cached == clast.before[1].response
        IN /\ clast.returned =
                 [cached EXCEPT !.on_time =
                     IF @ = None THEN None ELSE Some(@[1] + (EntryAge(clast) \div 1000))]
           /\ clast.queries = 0
           /\ clast.events = <<>>
           /\ info = clast.before

(***************************************************************************)
(* C4  Cache refresh, expired or missing entry.  A get_info for a device   *)
(* (with a handler) that has no cache entry, or whose entry is at least    *)
(* 30 s old, asks the device for its info exactly once and, when the       *)
(* device answers, stores the fetched snapshot as the new entry, publishes *)
(* exactly one DeviceStateChange event and returns the fetched snapshot.   *)
(***************************************************************************)
ReadOfStaleEntry(c) ==
    /\ c.op = "get_info"
    /\ device.handler
    /\ (c.before = None \/ EntryAge(c) >= INFO_VALIDITY_MILLIS)

C4_ExpiredReadRefreshes ==
    ReadOfStaleEntry(clast) =>
        /\ clast.queries = 1
        /\ clast.answer # None =>
              LET fetched == InfoFromDevice(dtype, clast.answer[1])
              IN /\ clast.returned = fetched
                 /\ info = Some([response |-> fetched, created |-> clast.at])
                 /\ clast.events = <<StateChangeEvent(fetched)>>

(***************************************************************************)
(* C5  Idempotent optimistic write.  update_info_optimistically with the   *)
(* snapshot that is cached for the device leaves the entry and its         *)
(* creation time alone and publishes nothing; with any other snapshot (or  *)
(* no entry) it stores the snapshot, created now, and publishes exactly    *)
(* one DeviceStateChange event carrying it.  Two calls in a row with the   *)
(* same snapshot publish at most one event together.                       *)
(***************************************************************************)
C5_IdempotentOptimisticWrite ==
    clast.op = "update_info_optimistically" =>
        /\ IF clast.before # None /\ clast.before[1].response = clast.arg
           THEN info = clast.before /\ clast.events = <<>>
           ELSE /\ info = Some([response |-> clast.arg, created |-> clast.at])
                /\ clast.events = <<StateChangeEvent(clast.arg)>>
        /\ (clast.prev.op = "update_info_optimistically" /\ clast.prev.arg = clast.arg)
              => Len(clast.events) + clast.prev.nevents <= 1

\* The same snapshot has been written twice, some time apart: the first write
\* published the event, the second one left the entry and its timestamp alone.
C5_Witness ==
    /\ clast.op = "update_info_optimistically"
    /\ clast.prev.op = "update_info_optimistically"
    /\ clast.prev.arg = clast.arg
    /\ clast.prev.nevents = 1
    /\ clast.events = <<>>
    /\ info # None /\ info[1].created < clast.at


(***************************************************************************)
(* What a subscriber has been given: the items its client has taken and    *)
(* the items waiting in its outbound queue.                                *)
(***************************************************************************)
IsPrefix(a, b) == Len(a) <= Len(b) /\ a = SubSeq(b, 1, Len(a))

Delivered(r) == r.got \o r.queue

DeliveredEvents(r) == SelectSeq(Delivered(r), IsEvent)

\* the events sent after the subscription whose type the filter asks for
MatchingSince(r, l) ==
    SelectSeq(SubSeq(l, r.start + 1, Len(l)),
              LAMBDA e : r.types = {} \/ e.type \in r.types)

Subscribed == {s \in Subs : sub[s].pc # "none"}

TypesOf(items) == {items[i].type : i \in DOMAIN items}

(***************************************************************************)
(* C6  Event filtering.  Every event a subscriber's task has put in the    *)
(* outbound queue, or holds for it, has a type that is in the subscriber's *)
(* filter, or the filter is empty: a subscriber filtered to                *)
(* {DeviceAuthChange} is given no DeviceStateChange event, one filtered to *)
(* {DeviceStateChange} no DeviceAuthChange event; a subscriber with an     *)
(* empty filter is given every event its task has received, of either type.*)
(***************************************************************************)
C6_EventFiltering ==
    \A s \in Subscribed :
        LET r == sub[s]
            given == DeliveredEvents(r) \o r.held
        IN  /\ \A i \in DOMAIN given : r.types = {} \/ given[i].type \in r.types
            /\ r.types = {"DeviceAuthChange"} => "DeviceStateChange" \notin TypesOf(given)
            /\ r.types = {"DeviceStateChange"} => "DeviceAuthChange" \notin TypesOf(given)
            /\ (r.types = {} /\ r.open) => given = SubSeq(log, r.start + 1, r.next)

\* a subscriber filtered to {DeviceAuthChange} whose task has received events
\* of both types and whose client has taken the DeviceAuthChange event alone
C6_Witness ==
    /\ sub[1].types = {"DeviceAuthChange"}
    /\ TypesOf(SubSeq(log, sub[1].start + 1, sub[1].next)) = EventTypes
    /\ Len(sub[1].got) = 1
    /\ sub[1].got[1].type = "DeviceAuthChange"

(***************************************************************************)
(* C9  Disconnected consumer.  Once the consumer of a subscriber has       *)
(* disconnected, the subscriber's task ends without a panic, also when the *)
(* subscriber has overrun the backlog in the meantime.                     *)
(***************************************************************************)
C9_DisconnectedTaskExitsSilently ==
    \A s \in Subscribed : ~sub[s].open => sub[s].pc # "panicked"


(***************************************************************************)
(* C7  Lagged subscriber.  At every moment the events given to a           *)
(* subscriber are, in order and without gap or repetition, the first of    *)
(* the events of its filter sent after its subscription; an error item is  *)
(* given at most once, as the last item, by a task that has found itself   *)
(* more than 10 events behind and has ended; no event sent after that gap  *)
(* is given.  A subscriber that is more than 10 events behind is in the    *)
(* end given the error item and its stream ends, unless its client has     *)
(* gone away.                                                              *)
(***************************************************************************)
C7_Delivery ==
    \A s \in Subscribed :
        LET r == sub[s]
            d == Delivered(r)
        IN  /\ IsPrefix(DeliveredEvents(r), MatchingSince(r, log))
            /\ \A i \in DOMAIN d :
                  d[i] = ErrorItem => i = Len(d) /\ r.pc = "done" /\ r.lagged
            /\ r.lagged =>
                  /\ Lagged(r.next, Len(log))
                  /\ r.pc \in {"send_err", "done", "panicked"}
                  /\ \A i \in DOMAIN d : IsEvent(d[i]) => d[i].n <= r.next
            /\ (r.lagged /\ r.pc = "done" /\ r.open) => d # <<>> /\ d[Len(d)] = ErrorItem

FellBehind(s) ==
    /\ sub[s].pc \in {"recv", "send", "send_err"}
    /\ Lagged(sub[s].next, Len(log))

StreamEndedWithError(s) ==
    /\ sub[s].pc = "done"
    /\ sub[s].queue = <<>>
    /\ sub[s].got # <<>>
    /\ sub[s].got[Len(sub[s].got)] = ErrorItem

C7_LaggedSubscriber ==
    /\ []C7_Delivery
    /\ \A s \in Subs : FellBehind(s) ~> (StreamEndedWithError(s) \/ ~sub[s].open)

\* the client has taken events, then the error item, and the stream has ended
C7_Witness ==
    /\ StreamEndedWithError(1)
    /\ sub[1].open
    /\ Len(sub[1].got) >= 3
    /\ Len(log) - sub[1].next > BROADCAST_CAPACITY


(***************************************************************************)
(* C8  Slow-subscriber isolation.  A send on the broadcast channel can     *)
(* always be made, whatever the subscribers are doing: outbound queue      *)
(* full, client not taking items, more than 10 events waiting.  The task   *)
(* and the client of a subscriber can step whenever their own channel      *)
(* lets them; a subscriber's task stops only for a lag or a disconnect of  *)
(* its own; and a subscriber whose task and client have caught up has been *)
(* given every event of its filter, in the order sent, whatever the state  *)
(* of the other subscriber.                                                *)
(***************************************************************************)
CaughtUp(r, l) == r.pc = "recv" /\ r.next = Len(l) /\ r.open

C8_SlowSubscriberIsolation ==
    /\ Len(log) < MaxPublished => ENABLED PairPublish
    /\ \A s \in Subscribed :
          LET r == sub[s]
          IN  /\ (r.pc = "recv" /\ r.next < Len(log)) => ENABLED ForwardStep(s)
              /\ (r.pc \in {"send", "send_err"} /\ Len(r.queue) < STREAM_QUEUE_DEPTH)
                    => ENABLED ForwardStep(s)
              /\ r.pc \in {"send_err", "done", "panicked"}
                    => \/ r.lagged /\ Lagged(r.next, Len(log))
                       \/ ~r.open
              /\ IsPrefix(DeliveredEvents(r), MatchingSince(r, log))
              /\ CaughtUp(r, log) => DeliveredEvents(r) = MatchingSince(r, log)

\* subscriber 1 has a full outbound queue, its task waits to send a fifth
\* event and is more than 10 events behind, while the client of subscriber 2
\* has taken every event sent
C8_Witness ==
    /\ sub[1].pc = "send"
    /\ sub[1].open
    /\ Len(sub[1].queue) = STREAM_QUEUE_DEPTH
    /\ Lagged(sub[1].next, Len(log))
    /\ sub[2].types = {"DeviceStateChange"}
    /\ CaughtUp(sub[2], log)
    /\ sub[2].got = log


(***************************************************************************)
(* C10  Hue wraparound.  For a current hue in 1..360 and a relative change *)
(* v, set() resolves the hue to (current + v) mod 360, the remainder taken *)
(* non-negative and 0 replaced by 360: 350 with +20 gives 10, 5 with -20   *)
(* gives 345.                                                              *)
(***************************************************************************)
ExpectedHue(current, v) == IF (current + v) % 360 = 0 THEN 360 ELSE (current + v) % 360

C10_HueWraparound ==
    (slast.op = "set" /\ ~slast.absolute /\ slast.before \in 1..360)
        => /\ slast.result = "ok"
           /\ slast.hue = ExpectedHue(slast.before, slast.value)
           /\ (slast.before = 350 /\ slast.value = 20) => slast.hue = 10
           /\ (slast.before = 5 /\ slast.value = -20) => slast.hue = 345


(***************************************************************************)
(* C11  Brightness clamping.  For a current brightness in 1..100 and a     *)
(* relative change v, set() resolves the brightness to                     *)
(* clamp(current + v, 1, 100): 90 with +30 gives 100, a change of 0 leaves *)
(* the brightness as it is, a negative change larger than the current      *)
(* value gives 1.                                                          *)
(***************************************************************************)
ClampTo(v, lo, hi) == Min(Max(v, lo), hi)

RelativeChangeOf(property) ==
    delta.property = property /\ ~delta.absolute

C11_BrightnessClamping ==
    (RelativeChangeOf("brightness") /\ delta.current \in 1..100)
        => /\ delta.result = "ok"
           /\ delta.resolved = ClampTo(delta.current + delta.value, 1, 100)
           /\ delta.value = 0 => delta.resolved = delta.current
           /\ delta.current + delta.value < 1 => delta.resolved = 1

(***************************************************************************)
(* C12  Temperature resolution.  For a current temperature in 2500..6500   *)
(* and a relative change v, set() resolves the temperature to              *)
(* clamp(current + v, 2500, 6500); the delta applied is v itself (4000     *)
(* with +100 gives 4100) and nothing wraps around.                         *)
(***************************************************************************)
C12_TemperatureResolution ==
    (RelativeChangeOf("temperature") /\ delta.current \in 2500..6500)
        => /\ delta.result = "ok"
           /\ delta.resolved = ClampTo(delta.current + delta.value, 2500, 6500)
           /\ (delta.current = 4000 /\ delta.value = 100) => delta.resolved = 4100

(***************************************************************************)
(* C13  Saturation resolution.  For a current saturation in 1..100 and a   *)
(* relative change v, set() resolves the saturation to                     *)
(* clamp(current + v, 1, 100); a change of 0 leaves it as it is.           *)
(***************************************************************************)
C13_SaturationResolution ==
    (RelativeChangeOf("saturation") /\ delta.current \in 1..100)
        => /\ delta.result = "ok"
           /\ delta.resolved = ClampTo(delta.current + delta.value, 1, 100)
           /\ delta.value = 0 => delta.resolved = delta.current


\* a call of the client has returned
Finished(c) == req[c].pc = "idle" /\ req[c].op # "none"

InDomain(change, lo, hi) == change = None \/ ~change[1].absolute \/ change[1].value \in lo..hi

SomeAbsoluteOutside(request) ==
    \/ ~InDomain(request.brightness, 1, 100)
    \/ ~InDomain(request.hue, 1, 360)
    \/ ~InDomain(request.saturation, 1, 100)
    \/ ~InDomain(request.temperature, 2500, 6500)

OnlyRelative(request) ==
    \A change \in {request.brightness, request.hue, request.saturation, request.temperature} :
        change = None \/ ~change[1].absolute

NothingChanged(r) ==
    /\ r.device_calls = <<>>
    /\ ~r.cache_changed
    /\ \A n \in DOMAIN r.events : r.events[n] # "DeviceStateChange"

\* C14 as stated: a set() call returns InvalidArgument if and only if some supplied
\* absolute change lies outside its domain
C14_InvalidArgumentIff ==
    Finished(1) /\ req[1].op = "set" =>
        (req[1].result = "InvalidArgument" <=> SomeAbsoluteOutside(req[1].request))

\* C14: a set() call for a known device whose session check has passed returns
\* InvalidArgument if and only if some supplied absolute change lies outside its
\* domain; a call whose session check failed returns Internal whatever it
\* supplied; a request of relative changes only is never answered
\* InvalidArgument; when InvalidArgument is returned no command of the request
\* has been sent to the device, the cache entry is the one before the call and
\* no DeviceStateChange event has been published
C14_ArgumentValidation ==
    Finished(1) /\ req[1].op = "set" =>
        /\ req[1].session_ok =>
              (req[1].result = "InvalidArgument" <=> SomeAbsoluteOutside(req[1].request))
        /\ ~req[1].session_ok => req[1].result = "Internal"
        /\ OnlyRelative(req[1].request) => req[1].result # "InvalidArgument"
        /\ req[1].result = "InvalidArgument" => NothingChanged(req[1])

\* a refresh of the session was made for a request that was then rejected for
\* its brightness of 101
C14_Witness ==
    /\ Finished(1)
    /\ req[1].result = "InvalidArgument"
    /\ req[1].request.brightness = Absolute(101)
    /\ req[1].session_calls = 1


LoneHueOrSaturation(request) == (request.hue = None) # (request.saturation = None)

\* C15: a set() call that supplies a hue change without a saturation change, or a
\* saturation change without a hue change, returns InvalidArgument and changes
\* nothing on the device or in the cache
C15_HueSaturationPairing ==
    Finished(1) /\ req[1].op = "set" /\ LoneHueOrSaturation(req[1].request) =>
        /\ req[1].result = "InvalidArgument"
        /\ NothingChanged(req[1])


\* the hue, saturation and temperature of a named color as a snapshot holds them:
\* a white preset is a temperature without hue and saturation, any other preset
\* a hue and a saturation with the temperature 0
PresetValues(color) ==
    IF hst(color)[3] > 0
    THEN <<None, None, Some(hst(color)[3])>>
    ELSE <<Some(hst(color)[1]), Some(hst(color)[2]), Some(0)>>

WithColorAndOthers(request) ==
    /\ request.color # None
    /\ request.hue # None \/ request.saturation # None \/ request.temperature # None

\* C16: when a set() call on a ColorLight supplies a named color together with
\* hue, saturation or temperature changes and succeeds, the hue, saturation and
\* temperature of the snapshot returned, which is the one cached, are those of
\* the named color, whatever the other changes were
C16_ColorPresetOverride ==
    /\ Finished(1) /\ req[1].op = "set" /\ dtype = "ColorLight"
    /\ req[1].result = "Ok" /\ WithColorAndOthers(req[1].request)
    => /\ req[1].returned # None
       /\ info # None
       /\ info[1].response = req[1].returned[1]
       /\ <<req[1].returned[1].hue, req[1].returned[1].saturation,
            req[1].returned[1].temperature>> = PresetValues(req[1].request.color[1])


\* the request got past the session check with a handler in the device
HandlerHeld(r) == r.session_ok /\ (r.had_handler \/ r.session_calls = 1)

GatedOnGeneric(c) ==
    /\ Finished(c)
    /\ req[c].op \in {"reset", "usage"}
    /\ req[c].name \in Registry
    /\ dtype = "Generic"

\* C17 as stated: reset and usage on a Generic device return Unimplemented in
\* every session state, and no call to the device is made, neither the operation
\* nor a session refresh or acquisition
C17_AlwaysUnimplemented ==
    \A c \in Clients :
        GatedOnGeneric(c) =>
            /\ req[c].result = "Unimplemented"
            /\ req[c].device_calls = <<>>
            /\ req[c].session_calls = 0

\* C17: reset and usage on a Generic device never invoke the operation on the
\* device, never succeed and never use the cache; the session check comes first
\* and makes its refresh or acquisition when one is due; the call returns
\* Unimplemented when the check has passed and the device holds a handler,
\* Internal when the check has failed, Unauthenticated when it has passed
\* without a handler
C17_CapabilityGating ==
    \A c \in Clients :
        GatedOnGeneric(c) =>
            /\ req[c].device_calls = <<>>
            /\ ~req[c].cache_touched
            /\ req[c].session_calls = (IF req[c].was_due THEN 1 ELSE 0)
            /\ req[c].result = (IF ~req[c].session_ok THEN "Internal"
                                ELSE IF HandlerHeld(req[c]) THEN "Unimplemented"
                                ELSE "Unauthenticated")

\* usage on a Generic device whose session was due: refreshed, then Unimplemented
C17_Witness ==
    /\ GatedOnGeneric(1)
    /\ req[1].op = "usage"
    /\ req[1].was_due /\ req[1].had_handler
    /\ req[1].session_calls = 1
    /\ req[1].result = "Unimplemented"

\* the device had no handler when the request came, and the acquisition of this
\* request failed or was not attempted
NoHandlerGained(c) ==
    /\ Finished(c)
    /\ req[c].locked
    /\ ~req[c].had_handler
    /\ ~req[c].session_ok \/ req[c].session_calls = 0

\* C18 as stated: every operation on a device that has never had a handler, when
\* the acquisition of this access fails or is put off, returns Unauthenticated or
\* Internal and never uses the cache
C18_UnauthenticatedOrInternal ==
    \A c \in Clients :
        NoHandlerGained(c) =>
            /\ req[c].result \in {"Unauthenticated", "Internal"}
            /\ ~req[c].cache_touched

\* C18: every operation on a device that has never had a handler returns Internal
\* when the acquisition of this access fails and Unauthenticated when it is put
\* off, except that a set() call with an absolute change outside its domain
\* returns InvalidArgument when the acquisition is put off; the request never
\* panics, never succeeds, makes no call on a handler and never uses the cache
C18_UnauthenticatedBeforeFirstSuccess ==
    \A c \in Clients :
        NoHandlerGained(c) =>
            /\ req[c].result =
                  (IF ~req[c].session_ok THEN "Internal"
                   ELSE IF req[c].op = "set" /\ SomeAbsoluteOutside(req[c].request)
                        THEN "InvalidArgument"
                   ELSE "Unauthenticated")
            /\ req[c].device_calls = <<>>
            /\ req[c].queries = 0
            /\ ~req[c].cache_touched
            /\ ~req[c].cache_changed

\* off on a device without a handler whose acquisition is put off
C18_Witness ==
    /\ NoHandlerGained(1)
    /\ req[1].op = "off"
    /\ req[1].session_ok
    /\ req[1].session_calls = 0
    /\ device.session_status = "RepeatedFailure"
    /\ req[1].result = "Unauthenticated"

\* C19: a call that names a device that is not in the configuration returns
\* NotFound in the step that looks the name up: it takes no lock, makes no call
\* to a device, leaves the session state and the cache as they are and
\* publishes no event
C19_UnknownDevice ==
    [][\A c \in Clients :
          (req'[c] # req[c] /\ req[c].pc = "idle" /\ req'[c].name \notin Registry) =>
              /\ req'[c].result = "NotFound"
              /\ req'[c].pc = "idle"
              /\ ~req'[c].locked
              /\ req'[c].session_calls = 0
              /\ req'[c].device_calls = <<>>
              /\ req'[c].queries = 0
              /\ req'[c].events = <<>>
              /\ mutex' = mutex
              /\ device' = device
              /\ info' = info
              /\ log' = log]_vars

\* NotFound for a name that is not in the configuration while the other client
\* holds the lock of the device
C19_Witness ==
    /\ Finished(1)
    /\ req[1].name \notin Registry
    /\ req[1].result = "NotFound"
    /\ mutex = 2
    /\ req[2].pc = "handle"

\* from the session check to the return of the handler
InSection(c) == req[c].pc \in {"session", "handle"}

\* C20: at most one request is between its session check and its return for the
\* device, and it is the one that holds the lock; a second request for the device
\* waits for the lock
C20_PerDeviceSerialization ==
    /\ ~(InSection(1) /\ InSection(2))
    /\ \A c \in Clients : InSection(c) <=> mutex = c

\* the second client waits for the lock while the first is in its session check
C20_Witness ==
    /\ req[1].pc = "session"
    /\ req[2].pc = "lock"
    /\ req[1].name = req[2].name
    /\ mutex = 1


\* the latest session call refreshed the session of a handler, or tried to acquire one
RefreshedHandler(result) ==
    last.op # "none" /\ last.refreshes = 1 /\ last.result = result

TriedAcquisition(result) ==
    last.op # "none" /\ last.acquires = 1 /\ last.result = result

\* C25: after a refresh_session on a device with a handler whose refresh succeeds,
\* the status is Authenticated, the failure count is 0 and the next session
\* action is the time of the call plus 60 minutes
C25_RefreshSuccess ==
    RefreshedHandler("Ok") =>
        /\ device.session_status = "Authenticated"
        /\ device.refresh_retires = 0
        /\ device.next_session_action = last.at + SESSION_VALIDITY_MILLIS

RefreshFailureState ==
    /\ device.session_status = "Failure"
    /\ device.refresh_retires = 1
    /\ device.next_session_action = last.before.next_session_action
    /\ device.handler = last.before.handler

C27_AcquisitionFailure ==
    TriedAcquisition("Err") =>
        /\ ~device.handler
        /\ device.refresh_retires =
              Min(last.before.refresh_retires + 1, SESSION_REFRESH_RETRIES)
        /\ IF device.refresh_retires = SESSION_REFRESH_RETRIES
           THEN /\ device.session_status = "RepeatedFailure"
                /\ device.next_session_action = last.at + REPEATED_FAILURE_RETRY_MILLIS
           ELSE /\ device.session_status = "Failure"
                /\ device.next_session_action = last.before.next_session_action
                /\ SessionActionDue(device, now)

\* the failure that brings the count from 9 to 10
C27_Witness ==
    /\ TriedAcquisition("Err")
    /\ last.before.refresh_retires = SESSION_REFRESH_RETRIES - 1
    /\ last.before.session_status = "Failure"
    /\ device.session_status = "RepeatedFailure"

\* C28: after a refresh_session on a device without a handler whose acquisition
\* succeeds, the handler is stored, the status is Authenticated, the failure count
\* is 0 and the next session action is the time of the call plus 60 minutes
C28_AcquisitionSuccess ==
    TriedAcquisition("Ok") =>
        /\ device.handler
        /\ device.session_status = "Authenticated"
        /\ device.refresh_retires = 0
        /\ device.next_session_action = last.at + SESSION_VALIDITY_MILLIS

\* the acquisition succeeds after the cooldown of a RepeatedFailure
C28_Witness ==
    /\ TriedAcquisition("Ok")
    /\ last.before.session_status = "RepeatedFailure"
    /\ ~last.before.handler
    /\ device.handler

C23_AuthChangeEvents ==
    [][/\ acq'.calls # acq.calls =>
             last'.events =
                 IF device'.session_status # device.session_status
                 THEN <<[type |-> "DeviceAuthChange", status |-> device'.session_status]>>
                 ELSE <<>>
       /\ acq'.calls = acq.calls => device'.session_status = device.session_status]_vars

\* the tenth failed acquisition has published the change to RepeatedFailure
C23_Witness ==
    /\ last.op = "refresh_session"
    /\ last.before.session_status = "Failure"
    /\ device.session_status = "RepeatedFailure"
    /\ last.events = <<[type |-> "DeviceAuthChange", status |-> "RepeatedFailure"]>>

\* C24: two info() calls for the same device within the validity of the cache
\* and with no other call in between make at most one info query to the device
C24_GetInfoUsesCache ==
    /\ Finished(1) /\ Finished(2)
    /\ req[1].op = "info" /\ req[2].op = "info"
    /\ req[1].name \in Registry /\ req[2].name = req[1].name
    => Len(req[1].device_calls) + Len(req[2].device_calls) <= 1

(***************************************************************************)
(* The fleet: calls on different devices, the order of the events of one   *)
(* device, and the registry that start_server builds                       *)
(***************************************************************************)
\* the call of client c is suspended in a call of the device library
Suspended(c) == task[c].pc \in {"session", "querying", "sending"}

\* the call of client e waits for a guard that the call of client c holds
WaitsFor(e, c) ==
    \/ task[e].pc = "lock" /\ locks.device[task[e].name] = c
    \/ task[e].pc \in {"state", "update"} /\ locks.state = c

\* C21: a call on one device that is suspended in a call of the device library
\* never holds a guard that a call on another device is waiting for
C21_CrossDeviceParallelism ==
    \A c, e \in Clients :
        Suspended(c) /\ task[e].pc # "idle" /\ task[e].name # task[c].name => ~WaitsFor(e, c)

Rank(id) == CHOOSE k \in 1..Len(trace.completed) : trace.completed[k] = id

IsCompleted(id) == \E k \in 1..Len(trace.completed) : trace.completed[k] = id

\* C22: every event was sent by a call that had the guard of its device; of two
\* events of one device sent by different calls, the call of the earlier event
\* has returned, and it returned before the call of the later event
C22_PerDeviceEventOrder ==
    /\ \A k \in 1..Len(trace.published) : trace.published[k].guarded
    /\ \A i, j \in 1..Len(trace.published) :
          i < j /\ trace.published[i].device = trace.published[j].device
                /\ trace.published[i].id # trace.published[j].id
          => /\ IsCompleted(trace.published[i].id)
             /\ IsCompleted(trace.published[j].id)
                   => Rank(trace.published[i].id) < Rank(trace.published[j].id)

C22_Witness ==
    \E i, j \in 1..Len(trace.published) :
        /\ i < j
        /\ trace.published[i].device = trace.published[j].device
        /\ trace.published[i].id # trace.published[j].id
        /\ trace.published[i].type = "DeviceAuthChange"
        /\ trace.published[j].type = "DeviceStateChange"
        /\ IsCompleted(trace.published[j].id)

\* C30: once start_server has run the registry has exactly the devices of the
\* configuration; a device that no call has reached yet is, with a handler,
\* Authenticated with failure count 0 and its next session action 60 minutes
\* after startup, and, without a handler, in status Failure with an access
\* that attempts the acquisition
C30_Startup ==
    Started =>
        /\ DOMAIN registry = ConfigDevices
        /\ \A n \in ConfigDevices \ trace.accessed :
              IF registry[n].handler
              THEN /\ registry[n].session_status = "Authenticated"
                   /\ registry[n].refresh_retires = 0
                   /\ registry[n].next_session_action
                         = trace.started_at[1] + SESSION_VALIDITY_MILLIS
              ELSE /\ registry[n].session_status = "Failure"
                   /\ \A outcome \in Outcomes :
                         try_refresh_session(registry[n], now, outcome).acquires = 1

C30_Witness ==
    /\ Started
    /\ now > trace.started_at[1]
    /\ \E n, m \in ConfigDevices :
          /\ n \in trace.accessed /\ registry[n].refresh_retires = 2
          /\ m \notin trace.accessed /\ registry[m].handler

(***************************************************************************)
(* get_info against get_info_silent                                        *)
(***************************************************************************)
\* C31: a get_info call returns the snapshot, leaves the cache entry and makes the
\* number of device queries that get_info_silent does for the same cache entry,
\* device answer and time
C31_ReadVersusReadSilent ==
    clast.op = "get_info" =>
        \A s \in {get_info_silent(clast.before, device, dtype, clast.at, clast.answer)} :
            /\ clast.result = s.result
            /\ clast.returned = s.returned
            /\ info = s.info
            /\ clast.queries = s.queries

(***************************************************************************)
(* The creation time of a cache entry                                      *)
(***************************************************************************)
\* C32: a call on State leaves an entry whose creation time is not before that of
\* the entry it found, and a call that changes the creation time has replaced
\* the entry
C32_CreatedMonotonic ==
    clast.op # "none" /\ clast.before # None =>
        /\ info # None
        /\ info[1].created >= clast.before[1].created
        /\ info[1].created # clast.before[1].created =>
              clast.op \in {"get_info_silent", "update_info_optimistically"}

(***************************************************************************)
(* devices() against itself                                                *)
(***************************************************************************)
\* the devices() call of client c has a guard and waits for one that e holds
ListWaitsFor(c, e) ==
    /\ task[c].pc = "list"
    /\ task[c].polled = Len(ValuesOrder)
    /\ Held(c) # {}
    /\ Held(e) # {}

\* C33: no two devices() calls each hold the guard of one device while waiting
\* for a guard that the other holds
C33_ListDevicesDeadlockFree ==
    \A c, e \in Clients :
        c # e /\ task[e].pc = "list" => ~(ListWaitsFor(c, e) /\ ListWaitsFor(e, c))

(***************************************************************************)
(* The unsigned arithmetic of set()                                        *)
(***************************************************************************)
\* the resolution of the change with overflow checks: it panics exactly when a
\* `-=` or `+=` leaves the range of the type, which is when it wraps without them
Checked(property, current, value, absolute) ==
    CASE property = "brightness" -> get_transformed_brightness(current, value, absolute, TRUE)
      [] property = "saturation" -> transformed_saturation(current, value, absolute, TRUE)
      [] property = "temperature" -> transformed_temperature(current, value, absolute, TRUE)

\* C34: for every cached value and every change that passes the range checks,
\* no subtraction or addition of the resolution leaves the range of its type:
\* the call does not panic and the value it resolves has not wrapped around
C34_NoUnderflowOrOverflow ==
    delta.property # "none" /\ delta.result # "invalid_argument" =>
        /\ delta.result # "panic"
        /\ ~Checked(delta.property, delta.current, delta.value, delta.absolute).panic

(***************************************************************************)
(* on() and off(): what they leave in the cache                            *)
(***************************************************************************)
FrameFields ==
    {"brightness", "hue", "saturation", "temperature", "color", "overheated",
     "dynamic_effect_id"}

\* client c is in on() or off() behind the session check and the call returns Ok
PowerReturnsOk(c) ==
    /\ req[c].pc = "handle"
    /\ req[c].op \in {"on", "off"}
    /\ req'[c].result = "Ok"

\* C35: a successful on() (off()) leaves a cache entry with device_on true (false)
\* and on-time 0 whose other properties are those of the entry it found
C35_PowerOnlyChangesPower ==
    [][\A c \in Clients :
          PowerReturnsOk(c) =>
              /\ info' # None
              /\ info'[1].response.device_on = Some(req[c].op = "on")
              /\ info'[1].response.on_time = Some(0)
              /\ info # None =>
                    \A field \in FrameFields :
                        info'[1].response[field] = info[1].response[field]]_vars

(***************************************************************************)
(* A command that the device rejects                                       *)
(***************************************************************************)
PowerOrSet == {"on", "off", "set"}

\* the replies of the device with every command rejected
Rejections(op) == {reply \in Replies(op) : reply.r1 # "Ok" /\ reply.r2 # "Ok"}

\* what the handler of the request of client c does when the device replies so
Handled(c, reply) ==
    Handle(req[c].op, req[c].request, device, dtype, info, now,
           reply.answer, reply.r1, reply.r2, reply.overflow_checks)

\* the cache entries that the read of the handler alone can leave, and the
\* snapshot it has read: on() and off() read once they have switched, set()
\* reads with get_info_silent and may write the snapshot back as it has read it
ReadLeaves(g) ==
    { [info |-> i, read |-> g.returned] :
          i \in {info, g.info, update_info_optimistically(g.info, now, g.returned).info} }

ReadOnly(answer) ==
    UNION { ReadLeaves(g) : g \in {get_info_silent(info, device, dtype, now, answer)} }

C37_StatusFollowsCount ==
    /\ device.refresh_retires \in 0..SESSION_REFRESH_RETRIES
    /\ device.session_status = "Authenticated" <=> device.refresh_retires = 0
    /\ device.session_status = "RepeatedFailure"
          <=> device.refresh_retires = SESSION_REFRESH_RETRIES

C37_Witness ==
    /\ RefreshedHandler("Ok")
    /\ last.before.session_status = "Failure"
    /\ device.handler
    /\ device.session_status = "Failure"
    /\ device.refresh_retires = 1

\* C38: a session call on a device that has a handler leaves it the handler and
\* acquires none; an Authenticated device has a handler and a device in
\* RepeatedFailure has none
C38_HandleMonotonic ==
    /\ device.session_status = "Authenticated" => device.handler
    /\ device.session_status = "RepeatedFailure" => ~device.handler
    /\ last.op # "none" /\ last.before.handler => device.handler /\ last.acquires = 0

C38_Witness ==
    /\ RefreshedHandler("Err")
    /\ last.op = "refresh_session"
    /\ last.before.session_status = "Failure"
    /\ last.before.handler
    /\ device.handler

(***************************************************************************)
(* The events of one request                                               *)
(***************************************************************************)
StateChanges(events) == Len(SelectSeq(events, LAMBDA type : type = "DeviceStateChange"))

SessionCheckFailed(c) == req[c].locked /\ req[c].checks = 1 /\ ~req[c].session_ok

\* C40: a device-targeted request calls try_refresh_session exactly once, after
\* it has acquired the device lock and before any device operation; when that
\* call fails the request returns the error with no device operation made, the
\* cache neither read nor written and no DeviceStateChange event published
C40_FailedSessionCheckAborts ==
    \A c \in Clients :
        /\ req[c].checks = 0 => req[c].pc \in {"idle", "lock", "session"} /\ req[c].device_calls = <<>>
        /\ req[c].pc = "session" => req[c].locked /\ mutex = c /\ req[c].checks = 0
        /\ req[c].pc = "handle" => req[c].locked /\ req[c].checks = 1 /\ req[c].device_calls = <<>>
        /\ Finished(c) /\ req[c].locked => req[c].checks = 1
        /\ req[c].device_calls # <<>> \/ req[c].queries > 0 => req[c].checks = 1 /\ req[c].session_ok
        /\ SessionCheckFailed(c) =>
              /\ Finished(c)
              /\ req[c].result = "Internal"
              /\ req[c].device_calls = <<>>
              /\ req[c].queries = 0
              /\ ~req[c].cache_touched
              /\ ~req[c].cache_changed
              /\ StateChanges(req[c].events) = 0
              /\ req[c].returned = None

C40_Witness ==
    \E c \in Clients :
        /\ SessionCheckFailed(c)
        /\ req[c].op = "set"
        /\ req[c].had_handler
        /\ req[c].was_due
        /\ req[c].session_calls = 1
        /\ req[c].result = "Internal"

====
